---- MODULE Spec2Model ----
(***************************************************************************)
(* granary: publishing through the Mastodon adapter (granary/mastodon.py)  *)
(* and the id fallback chain of the Facebook adapter (facebook_test.py).   *)
(*                                                                         *)
(* A call is synchronous: every transport request blocks until its         *)
(* response is there, so an action issues one request, draws the response  *)
(* from the statuses and bodies a server can send, and appends both to the *)
(* request log.                                                            *)
(***************************************************************************)
EXTENDS Integers, Sequences, FiniteSets, TLC

VARIABLES
  pc,        \* position of the running call
  call,      \* the running call: function, object, preview flag
  requests,  \* transport requests issued by the running call, in order
  media,     \* upload_media: the items not yet handled
  ids,       \* upload_media: the media ids collected so far
  data,      \* _create: the parameters of the status POST
  result,    \* what the call returned or raised, or NoResult
  ids_to_try, \* Facebook: the ids the fallback chain has not yet looked up
  statuses,  \* get_activities_response: the fetched statuses not yet converted
  activities \* get_activities_response: the activities converted so far

vars == <<pc, call, requests, media, ids, data, result, ids_to_try,
          statuses, activities>>

mastodon_vars == <<media, ids, data>>

fetch_vars == <<statuses, activities>>

----------------------------------------------------------------------------
(* Bounds *)

\* most media items (images plus videos) of one object
MaxMedia == 3

\* most statuses of one response: a user's statuses, a status's descendants
MaxStatuses == 2

\* most characters of a content that tags are spliced into
MaxContent == 3

\* most tags of an object that are rendered after its content
MaxTags == 2

----------------------------------------------------------------------------
(* Values *)

None == "None"

Falsy(x) == x \in {None, ""}

NoneRec == [tag |-> "None"]

InstanceHost == "foo.com"

API_FAVORITE == "/api/v1/statuses/%s/favourite"
API_MEDIA == "/api/v1/media"
API_REBLOG == "/api/v1/statuses/%s/reblog"
API_STATUSES == "/api/v1/statuses"

NoUrl == [host |-> None, path |-> <<>>]

\* status urls on the instance, and one on another instance
NativeUrls == {[host |-> InstanceHost, path |-> <<"@other", "123">>],
               [host |-> InstanceHost, path |-> <<"@snarfed", "456">>]}

OtherUrls == {[host |-> "bad", path |-> <<"@other", "123">>]}

RefUrls == {NoUrl} \cup NativeUrls \cup OtherUrls

\* media item k of a group: its url is absent or names the item
MediaSeq(group, flags) ==
  [k \in 1..Len(flags) |->
     [url |-> IF flags[k] THEN [host |-> group, path |-> <<ToString(k)>>] ELSE NoUrl]]

Flags(n) == [1..n -> BOOLEAN]

ObjectTypes == {None, "note", "article", "comment", "activity"}

RsvpVerbs == {"rsvp-yes"}

Verbs == {None, "like", "share", "invite", "tag"} \cup RsvpVerbs

\* what a server answers: a status, and on success a JSON body
ErrorStatuses == {404, 500}

MediaIds == {"a", "b"}

StatusBodies == {[id |-> "789", url |-> u] :
                   u \in {NoUrl, [host |-> InstanceHost, path |-> <<"@me", "789">>]}}

MediaBodies == {[id |-> i, url |-> NoUrl] : i \in MediaIds}

NoBody == [id |-> None, url |-> NoUrl]

Responses(bodies) ==
  {[status |-> 200, body |-> b] : b \in bodies}
    \cup {[status |-> s, body |-> NoBody] : s \in ErrorStatuses}

----------------------------------------------------------------------------
(* Transport *)

NoData == [status |-> None, in_reply_to_id |-> None, media_ids |-> <<>>]

\* one request and its response, as the log keeps them
Exchange(method, host, path, arg, auth, json, file, resp) ==
  [method |-> method, host |-> host, path |-> path, arg |-> arg,
   auth |-> auth, json |-> json, file |-> file,
   status |-> resp.status, body |-> resp.body]

\* Mastodon._api: the Authorization header, the url joined to the instance
ApiExchange(method, path, arg, json, file, resp) ==
  Exchange(method, InstanceHost, path, arg, "Bearer towkin", json, file, resp)

FetchExchange_with_token(url, resp) ==
  Exchange("GET", url.host, url.path, <<>>, "Bearer towkin", NoData, NoUrl, resp)

\* upload_media's fetch of the item's own url: requests_get, no headers
FetchExchange(url, resp) ==
  Exchange("GET", url.host, url.path, <<>>, None, NoData, NoUrl, resp)

----------------------------------------------------------------------------
(* CreationResult *)

NoResult == [tag |-> "NoResult"]

creation_result(content, description, abort, error_plain, error_html) ==
  [tag |-> "CreationResult", content |-> content, description |-> description,
   abort |-> abort, error_plain |-> error_plain, error_html |-> error_html]

\* the error messages of Mastodon._create
NO_CONTENT == "No content text found."

REPLY_PLAIN == "Could not find a toot on foo.com to reply to."

REPLY_HTML == "Could not find a toot on <a href=foo.com>foo.com</a> to reply to. Check in-reply-to."

FAVORITE_PLAIN == "Could not find a toot on foo.com to favorite."

FAVORITE_HTML == "Could not find a toot on <a href=foo.com>foo.com</a> to favorite. Check u-like-of."

BOOST_PLAIN == "Could not find a toot to boost."

BOOST_HTML == "Could not find a toot on <a href=foo.com>foo.com</a> to boost. Check repost-of."

CANNOT_PUBLISH == "Cannot publish type=%s, verb=%s to Mastodon"

----------------------------------------------------------------------------
(* Mastodon._create, up to its first transport request *)

\* Source.base_object: the first target reference whose url is on this
\* instance, with the native id its url ends in; empty when there is none
base_object(obj) ==
  LET on(u) == u.host = InstanceHost
      pick == IF on(obj.inReplyTo) THEN obj.inReplyTo
              ELSE IF on(obj.object) THEN obj.object
              ELSE NoUrl
  IN  IF pick = NoUrl THEN [id |-> None, url |-> NoUrl]
      ELSE [id |-> pick.path[Len(pick.path)], url |-> pick]

is_reply(obj) == obj.objectType = "comment" \/ obj.inReplyTo # NoUrl

is_rsvp(obj) == obj.verb \in RsvpVerbs \/ obj.verb = "invite"

images(obj) == obj.image

videos(obj) == obj.stream

has_media(obj) ==
  /\ Len(images(obj)) + Len(videos(obj)) > 0
  /\ (obj.objectType \in {"note", "article"} \/ is_reply(obj))

\* Source._content_for_create: the text the object carries, empty when none
content_for_create(obj) == obj.content

\* Source.truncate: no text of the model exceeds the length budget
truncate(content) == content

\* the content _create goes on with, or None where it returns "No content"
content_or_default(obj) ==
  LET content == content_for_create(obj)
  IN  IF ~Falsy(content) THEN content
      ELSE IF obj.objectType = "activity" /\ ~is_rsvp(obj) THEN obj.verb
      ELSE IF has_media(obj) THEN ""
      ELSE None

\* the videos handed to upload_media before the images
media_videos_first(obj) == videos(obj) \o images(obj)

\* upload_media's arguments: images + videos
media_of(obj) == images(obj) \o videos(obj)

\* upload_media's loop: items without a url are passed over
skip_no_url(m) == SelectSeq(m, LAMBDA o : o.url # NoUrl)

\* the previews of the videos, then of the images
media_previews(obj) ==
  [k \in 1..Len(videos(obj)) |-> videos(obj)[k].url]
    \o [k \in 1..Len(images(obj)) |-> images(obj)[k].url]

preview_post(obj, content) ==
  creation_result(
    [tag |-> "html", text |-> content, media |-> media_previews(obj)],
    [tag |-> IF is_reply(obj) THEN "reply" ELSE "toot",
     url |-> IF is_reply(obj) THEN base_object(obj).url ELSE NoUrl],
    FALSE, None, None)

preview_react(verb, base_url) ==
  creation_result(NoneRec, [tag |-> verb, url |-> base_url], FALSE, None, None)

error_result(abort, plain, html) ==
  creation_result(NoneRec, NoneRec, abort, plain, html)

\* where _create stands when it first needs the transport, or what it returns
\* before that: [pc, result, data, media]
Returns(r) == [pc |-> "done", result |-> r, data |-> NoData, media |-> <<>>]

Goes(to, d, m) == [pc |-> to, result |-> NoResult, data |-> d, media |-> m]

after_uploads(m) == IF m = <<>> THEN "statuses" ELSE "fetch"

\* return source.creation_result(abort=False, 'No content text found.')
no_content == error_result(FALSE, NO_CONTENT, NO_CONTENT)

\* if is_reply and not base_url
no_reply_target == error_result(TRUE, REPLY_PLAIN, REPLY_HTML)

\* like: if not base_url
no_favorite_target == error_result(TRUE, FAVORITE_PLAIN, FAVORITE_HTML)

\* the boost error without its HTML form
no_boost_target_plain_only == error_result(TRUE, BOOST_PLAIN, None)

\* share: if not base_url
no_boost_target == error_result(TRUE, BOOST_PLAIN, BOOST_HTML)

\* the unsupported-type error as an abort
cannot_publish_aborts == error_result(TRUE, CANNOT_PUBLISH, CANNOT_PUBLISH)

\* else: no handler takes the object
cannot_publish == error_result(FALSE, CANNOT_PUBLISH, CANNOT_PUBLISH)

\* a like branch that favourites in a preview too
like_branch_ignores_preview(obj, preview) ==
  IF base_object(obj).url = NoUrl THEN Returns(no_favorite_target)
  ELSE Goes("favorite", NoData, <<>>)

\* if type == 'activity' and verb == 'like'
like_branch(obj, preview) ==
  IF base_object(obj).url = NoUrl THEN Returns(no_favorite_target)
  ELSE IF preview THEN Returns(preview_react("favorite", base_object(obj).url))
  ELSE Goes("favorite", NoData, <<>>)

\* elif type == 'activity' and verb == 'share'
share_branch(obj, preview) ==
  IF base_object(obj).url = NoUrl THEN Returns(no_boost_target)
  ELSE IF preview THEN Returns(preview_react("boost", base_object(obj).url))
  ELSE Goes("reblog", NoData, <<>>)

\* a post branch that leaves the reply's target out of the status
post_branch_no_reply_id(obj, preview, content) ==
  IF preview THEN Returns(preview_post(obj, content))
  ELSE Goes(after_uploads(skip_no_url(media_of(obj))),
            [status |-> content, in_reply_to_id |-> None, media_ids |-> <<>>],
            media_of(obj))

\* elif type in ('note', 'article') or is_reply or is_rsvp
post_branch(obj, preview, content) ==
  IF preview THEN Returns(preview_post(obj, content))
  ELSE Goes(after_uploads(skip_no_url(media_of(obj))),
            [status |-> content,
             in_reply_to_id |-> IF is_reply(obj) THEN base_object(obj).id ELSE None,
             media_ids |-> <<>>],
            media_of(obj))

\* a reply whose missing target goes unnoticed
reply_unresolved_never(obj) == FALSE

\* if is_reply and not base_url
reply_unresolved(obj) == is_reply(obj) /\ base_object(obj).url = NoUrl

_create(obj, preview) ==
  LET type == obj.objectType
      verb == obj.verb
      first == content_or_default(obj)
  IN  IF first = None THEN Returns(no_content)
      ELSE IF reply_unresolved(obj) THEN Returns(no_reply_target)
      ELSE IF type = "activity" /\ verb = "like" THEN like_branch(obj, preview)
      ELSE IF type = "activity" /\ verb = "share" THEN share_branch(obj, preview)
      ELSE IF type \in {"note", "article"} \/ is_reply(obj) \/ is_rsvp(obj)
        THEN post_branch(obj, preview, truncate(first))
      ELSE Returns(cannot_publish)

----------------------------------------------------------------------------
(* The calls *)

Idle ==
  /\ pc = "idle"
  /\ call = [fn |-> None]
  /\ requests = <<>>
  /\ media = <<>>
  /\ ids = <<>>
  /\ data = NoData
  /\ result = NoResult
  /\ ids_to_try = <<>>
  /\ statuses = <<>>
  /\ activities = <<>>

Init == Idle

\* the objects create and preview_create are called with: an activity carries
\* a verb, at most one of inReplyTo and object is given, and there are at
\* most MaxMedia images and videos; the images are at http://pic/ or, for
\* an object with one image and no video, on the instance itself
Object(t, v, c, r, o, hi, fi, fv) ==
  [objectType |-> t, verb |-> v, content |-> c, inReplyTo |-> r, object |-> o,
   image |-> MediaSeq(hi, fi), stream |-> MediaSeq("video", fv)]

Call(fn, preview) ==
  /\ pc = "idle"
  /\ \E t \in ObjectTypes, v \in Verbs, c \in {"", "text"},
        r \in RefUrls, o \in RefUrls, ni \in 0..MaxMedia :
       \E nv \in 0..(MaxMedia - ni) :
         \E hi \in {"pic", InstanceHost}, fi \in Flags(ni), fv \in Flags(nv) :
           LET obj == Object(t, v, c, r, o, hi, fi, fv)
               out == _create(obj, preview)
           IN  /\ hi = InstanceHost => (ni = 1 /\ nv = 0 /\ fi[1])
               /\ t = "activity" => v # None
               /\ r = NoUrl \/ o = NoUrl
               /\ call' = [fn |-> fn, obj |-> obj, preview |-> preview]
               /\ pc' = out.pc
               /\ result' = out.result
               /\ data' = out.data
               /\ media' = out.media
               /\ UNCHANGED <<requests, ids, ids_to_try, fetch_vars>>

\* Mastodon.create
Create == Call("create", FALSE)

\* Mastodon.preview_create
PreviewCreate == Call("preview_create", TRUE)

Raise_and_retry ==
  /\ pc' = pc
  /\ result' = NoResult

\* Mastodon._api: a non-2xx status is raised to the caller
Raise ==
  /\ pc' = "raised"
  /\ result' = NoResult

Finish_as_answered(resp, type) ==
  /\ pc' = "done"
  /\ result' = creation_result(
       [tag |-> "dict", id |-> resp.body.id, url |-> resp.body.url, type |-> type],
       NoneRec, FALSE, None, None)

\* the end of _create: the response with its url defaulted to the target's
Finish(resp, type) ==
  LET base_url == base_object(call.obj).url
      url == IF resp.body.url = NoUrl THEN base_url ELSE resp.body.url
  IN  /\ pc' = "done"
      /\ result' = creation_result(
           [tag |-> "dict", id |-> resp.body.id, url |-> url, type |-> type],
           NoneRec, FALSE, None, None)

\* resp = self._post(API_FAVORITE % base_id)
Favorite ==
  /\ pc = "favorite"
  /\ \E resp \in Responses(StatusBodies) :
       /\ requests' = Append(requests,
            ApiExchange("POST", API_FAVORITE, <<base_object(call.obj).id>>,
                        NoData, NoUrl, resp))
       /\ IF resp.status = 200 THEN Finish(resp, "like") ELSE Raise
  /\ UNCHANGED <<call, media, ids, data, ids_to_try, fetch_vars>>

\* resp = self._post(API_REBLOG % base_id)
Reblog ==
  /\ pc = "reblog"
  /\ \E resp \in Responses(StatusBodies) :
       /\ requests' = Append(requests,
            ApiExchange("POST", API_REBLOG, <<base_object(call.obj).id>>,
                        NoData, NoUrl, resp))
       /\ IF resp.status = 200 THEN Finish(resp, "repost") ELSE Raise
  /\ UNCHANGED <<call, media, ids, data, ids_to_try, fetch_vars>>

\* upload_media: util.requests_get(url, stream=True) of the next item that
\* has a url, and fetch.raise_for_status()
MediaFetch ==
  /\ pc = "fetch"
  /\ \E resp \in Responses({NoBody}) :
       /\ requests' = Append(requests,
            FetchExchange(Head(skip_no_url(media)).url, resp))
       /\ IF resp.status = 200
            THEN pc' = "upload" /\ media' = skip_no_url(media)
            ELSE pc' = "raised" /\ media' = media
  /\ UNCHANGED <<call, ids, data, result, ids_to_try, fetch_vars>>

\* upload_media: upload = self._post(API_MEDIA, files={'file': fetch.raw}),
\* ids.append(upload['id']), and on to the next item
MediaUpload ==
  /\ pc = "upload"
  /\ \E resp \in Responses(MediaBodies) :
       /\ requests' = Append(requests,
            ApiExchange("POST", API_MEDIA, <<>>, NoData, Head(media).url, resp))
       /\ IF resp.status = 200
            THEN /\ ids' = Append(ids, resp.body.id)
                 /\ media' = Tail(media)
                 /\ pc' = after_uploads(skip_no_url(Tail(media)))
            ELSE /\ pc' = "raised"
                 /\ UNCHANGED <<ids, media>>
  /\ UNCHANGED <<call, data, result, ids_to_try, fetch_vars>>

\* if ids: data['media_ids'] = ids; resp = self._post(API_STATUSES, json=data)
PostStatus ==
  /\ pc = "statuses"
  /\ data' = [data EXCEPT !.media_ids = ids]
  /\ \E resp \in Responses(StatusBodies) :
       /\ requests' = Append(requests,
            ApiExchange("POST", API_STATUSES, <<>>, data', NoUrl, resp))
       /\ IF resp.status = 200 THEN Finish(resp, None) ELSE Raise
  /\ UNCHANGED <<call, media, ids, ids_to_try, fetch_vars>>

\* the call is over: its result or its exception is the caller's
Return ==
  /\ pc \in {"done", "raised"}
  /\ pc' = "idle"
  /\ call' = [fn |-> None]
  /\ requests' = <<>>
  /\ media' = <<>>
  /\ ids' = <<>>
  /\ data' = NoData
  /\ result' = NoResult
  /\ ids_to_try' = <<>>
  /\ statuses' = <<>>
  /\ activities' = <<>>

----------------------------------------------------------------------------
(* The Facebook adapter: lookups by id, the fallback chain, publishing *)

GRAPH == "graph.facebook.com"

API_OBJECT == "/%s"
API_COMMENTS == "/%s/comments"
API_LIKES == "/%s/likes"

COULD_NOT_FIND_PLAIN == "Could not find a Facebook status to reply to or like."

COULD_NOT_FIND_HTML == "Could not find a Facebook status to <a>reply to or like</a>."

CANNOT_SHARES_PLAIN == "Cannot publish shares to Facebook."

CANNOT_SHARES_HTML == "Cannot publish <a>shares</a> to Facebook."

\* an id is kept as its segments: '12_34' is <<"12", "34">>
FbIds == {<<"34">>, <<"12", "34">>, <<"123", "456", "789">>}

NoId == <<>>

Hints == {None, "56"}

\* the two post-url forms of post 333, and urls that are no post's
FbPostUrls == {[host |-> "www.facebook.com", path |-> <<"snarfed.org", "posts", "333">>],
               [host |-> "www.facebook.com", path |-> <<"photo.php", "fbid", "333">>]}

FbRefUrls == {NoUrl, [host |-> "other", path |-> <<>>],
              [host |-> "foo.com", path |-> <<"bar">>]} \cup FbPostUrls

FbBodies == {[id |-> i, url |-> NoUrl] : i \in {"x", "y"}}

Pending == [status |-> 0, body |-> NoBody]

has_separator(id) == Len(id) > 1

suffix_after_first(id) == Tail(id)

last_segment(id) == <<id[Len(id)]>>

with_owner(hint, id) == <<hint>> \o id

\* the chain in the order verbatim id, suffix, suffix under the owner
activity_ids_verbatim_first(id, hint) ==
  IF has_separator(id)
    THEN <<id, suffix_after_first(id)>>
           \o (IF hint # None
                 THEN <<with_owner(hint, suffix_after_first(id))>>
                 ELSE <<>>)
    ELSE <<id>>

\* get_activities(activity_id=..., user_id=...): the suffix, then the id as
\* given, then the suffix under the alternate owner
activity_ids_to_try(id, hint) ==
  IF has_separator(id)
    THEN <<suffix_after_first(id), id>>
           \o (IF hint # None
                 THEN <<with_owner(hint, suffix_after_first(id))>>
                 ELSE <<>>)
    ELSE <<id>>

\* the retry with everything after the first separator
comment_ids_first_suffix(id) ==
  IF has_separator(id) THEN <<id, suffix_after_first(id)>> ELSE <<id>>

\* get_comment(comment_id): the id as given, then its last segment
comment_ids_to_try(id) ==
  IF has_separator(id) THEN <<id, last_segment(id)>> ELSE <<id>>

ClientError(status) == status \in 400..499

\* whether the chain goes on after its k-th lookup has failed with status
retries(k, status) == IF k = 1 THEN ClientError(status) ELSE TRUE

\* the native url patterns, most specific first
fb_native_id(url) ==
  IF url.host # "www.facebook.com" THEN NoId
  ELSE IF Len(url.path) = 3 /\ url.path[1] = "photo.php" /\ url.path[2] = "fbid"
    THEN <<url.path[3]>>
  ELSE IF Len(url.path) = 3 /\ url.path[2] = "posts"
    THEN <<url.path[3]>>
  ELSE NoId

IsLookup(e) == e.host = GRAPH /\ e.method = "GET"

\* the id the publish call acts on: the url's, or the one whose lookup worked
resolved_id ==
  IF fb_native_id(call.obj.ref.url) # NoId THEN fb_native_id(call.obj.ref.url)
  ELSE requests[Len(requests)].arg

fb_preview(obj) ==
  creation_result(NoneRec, [tag |-> obj.objectType, url |-> obj.ref.url],
                  FALSE, None, None)

fb_not_found == error_result(TRUE, COULD_NOT_FIND_PLAIN, COULD_NOT_FIND_HTML)

\* Facebook create and preview_create, up to the first transport request
fb_create(obj, preview) ==
  IF obj.objectType = "activity" /\ obj.verb = "share"
    THEN Returns(error_result(TRUE, CANNOT_SHARES_PLAIN, CANNOT_SHARES_HTML))
  ELSE IF fb_native_id(obj.ref.url) # NoId
    THEN IF preview THEN Returns(fb_preview(obj)) ELSE Goes("publish", NoData, <<>>)
  ELSE IF obj.ref.id # NoId
    THEN Goes("lookup", NoData, <<>>)
  ELSE Returns(fb_not_found)

FbCall(fn, preview) ==
  /\ pc = "idle"
  /\ \E tv \in {<<"comment", None>>, <<"activity", "like">>, <<"activity", "share">>},
        u \in FbRefUrls, id \in FbIds \cup {NoId}, hint \in Hints :
       LET obj == [objectType |-> tv[1], verb |-> tv[2],
                   ref |-> [url |-> u, id |-> id], hint |-> hint]
           out == fb_create(obj, preview)
       IN  /\ call' = [fn |-> fn, obj |-> obj, preview |-> preview]
           /\ pc' = out.pc
           /\ result' = out.result
           /\ ids_to_try' = IF out.pc = "lookup"
                              THEN activity_ids_to_try(id, hint) ELSE <<>>
  /\ UNCHANGED <<requests, mastodon_vars, fetch_vars>>

FbCreate == FbCall("fb_create", FALSE)

FbPreviewCreate == FbCall("fb_preview_create", TRUE)

GetActivities ==
  /\ pc = "idle"
  /\ \E id \in FbIds, hint \in Hints :
       /\ call' = [fn |-> "get_activities", id |-> id, hint |-> hint]
       /\ ids_to_try' = activity_ids_to_try(id, hint)
  /\ pc' = "lookup"
  /\ UNCHANGED <<requests, result, mastodon_vars, fetch_vars>>

GetComment ==
  /\ pc = "idle"
  /\ \E id \in FbIds :
       /\ call' = [fn |-> "get_comment", id |-> id, hint |-> None]
       /\ ids_to_try' = comment_ids_to_try(id)
  /\ pc' = "lookup"
  /\ UNCHANGED <<requests, result, mastodon_vars, fetch_vars>>

\* the next lookup of the chain is issued
LookupSend ==
  /\ pc = "lookup"
  /\ requests' = Append(requests,
       Exchange("GET", GRAPH, API_OBJECT, Head(ids_to_try), None, NoData,
                NoUrl, Pending))
  /\ ids_to_try' = Tail(ids_to_try)
  /\ pc' = "lookup_wait"
  /\ UNCHANGED <<call, result, mastodon_vars, fetch_vars>>

\* a chain that goes on looking after a lookup has worked
Found_keeps_looking(id, body) ==
  IF ids_to_try # <<>>
    THEN pc' = "lookup" /\ result' = result
    ELSE pc' = "done" /\ result' = [tag |-> "found", id |-> id, body |-> body]

\* a lookup worked: the fetch calls return what it found, publishing goes on
Found(id, body) ==
  IF call.fn \in {"get_activities", "get_comment"}
    THEN pc' = "done" /\ result' = [tag |-> "found", id |-> id, body |-> body]
  ELSE IF call.preview
    THEN pc' = "done" /\ result' = fb_preview(call.obj)
  ELSE pc' = "publish" /\ result' = result

\* exhaustion that reaches the caller of create as an exception
NotFound_raises ==
  pc' = "raised" /\ result' = [tag |-> "TargetNotFoundError"]

\* the chain is exhausted
NotFound ==
  IF call.fn \in {"get_activities", "get_comment"}
    THEN pc' = "raised" /\ result' = [tag |-> "TargetNotFoundError"]
    ELSE pc' = "done" /\ result' = fb_not_found

\* the outstanding lookup returns
LookupReturn ==
  /\ pc = "lookup_wait"
  /\ \E resp \in Responses(FbBodies) :
       LET k == Len(requests)
       IN  /\ requests' = [requests EXCEPT ![k] =
                 [@ EXCEPT !.status = resp.status, !.body = resp.body]]
           /\ IF resp.status = 200
                THEN Found(requests[k].arg, resp.body)
              ELSE IF ids_to_try # <<>> /\ retries(k, resp.status)
                THEN pc' = "lookup" /\ result' = result
              ELSE NotFound
  /\ UNCHANGED <<call, ids_to_try, mastodon_vars, fetch_vars>>

\* the create call itself: POST /<id>/comments or /<id>/likes
Publish ==
  /\ pc = "publish"
  /\ \E resp \in Responses(FbBodies) :
       /\ requests' = Append(requests,
            Exchange("POST", GRAPH,
                     IF call.obj.verb = "like" THEN API_LIKES ELSE API_COMMENTS,
                     resolved_id, None, NoData, NoUrl, resp))
       /\ IF resp.status = 200
            THEN /\ pc' = "done"
                 /\ result' = creation_result(
                      [tag |-> "dict", id |-> resp.body.id, url |-> call.obj.ref.url,
                       type |-> IF call.obj.verb = "like" THEN "like" ELSE "comment"],
                      NoneRec, FALSE, None, None)
            ELSE Raise
  /\ UNCHANGED <<call, ids_to_try, mastodon_vars, fetch_vars>>

(* Mastodon payloads: accounts and statuses as the API sends them. A key   *)
(* that is absent, or null, is None (NoneRec where the value is a dict).   *)

MEDIA_TYPES(type) ==
  CASE type = "image" -> "image"
    [] type = "video" -> "video"
    [] type = "gifv" -> "video"
    [] OTHER -> None

\* a profile field: its value is HTML that holds a link, or plain text
Link(href) == [a |-> TRUE, href |-> href]

PlainText == [a |-> FALSE, href |-> None]

FieldSeqs ==
  {<<>>,
   <<[name |-> "Web site", value |-> Link("https://snarfed.org")]>>,
   <<[name |-> "Web site", value |-> Link("http://foo.com/@snarfed")]>>,
   <<[name |-> "Web site", value |-> PlainText]>>,
   <<[name |-> "Pronouns", value |-> PlainText],
     [name |-> "Web site", value |-> Link("https://snarfed.org")],
     [name |-> "Web site", value |-> Link("https://snarfed.org")]>>}

Account(id, username, url, display_name, fields) ==
  [tag |-> "dict", id |-> id, username |-> username, url |-> url,
   display_name |-> display_name, fields |-> fields,
   avatar |-> IF display_name = None THEN None ELSE "http://foo.com/snarfed.png",
   created_at |-> IF display_name = None THEN None ELSE "2017-04-19",
   note |-> IF display_name = None THEN None ELSE "my note"]

Accounts ==
  {Account(id, username, url, display_name, fields) :
     id \in {None, "23507"}, username \in {None, "snarfed"},
     url \in {None, "http://foo.com/@snarfed"},
     display_name \in {None, "Ryan Barrett"}, fields \in FieldSeqs}

\* the accounts a status comes with: none, one without username, the
\* test's ACCOUNT with and without its optional fields, one whose Web site
\* field holds no link
StatusAccounts ==
  {NoneRec,
   Account("23507", None, None, None, <<>>),
   Account("23507", "snarfed", None, None, <<>>),
   Account("23507", "snarfed", "http://foo.com/@snarfed", "Ryan Barrett",
           <<[name |-> "Web site", value |-> Link("https://snarfed.org")]>>),
   Account("23507", "snarfed", "http://foo.com/@snarfed", None,
           <<[name |-> "Web site", value |-> PlainText]>>)}

Attachment(id, type, url) ==
  [id |-> id, type |-> type, url |-> url,
   preview_url |-> IF type = "gifv" THEN "http://foo.com/poster.png" ELSE None,
   description |-> IF type = "gifv" THEN "a fun video" ELSE None]

AttachmentSeqs ==
  {<<>>,
   <<Attachment("222", "image", "http://foo.com/image.jpg")>>,
   <<Attachment("222", "image", None)>>,
   <<Attachment("444", "gifv", "http://foo.com/video.mp4")>>,
   <<Attachment("555", "unknown", "http://foo.com/file")>>,
   <<Attachment(None, None, None)>>,
   <<Attachment("222", "image", "http://foo.com/image.jpg"),
     Attachment("444", "gifv", "http://foo.com/video.mp4")>>}

Mention(id, username) ==
  [id |-> id, username |-> username,
   url |-> IF username = None THEN None ELSE "https://other/@" \o username]

MentionSeqs ==
  {<<>>,
   <<Mention("11018", "alice")>>,
   <<Mention(None, None)>>,
   <<Mention("11018", "alice"), Mention("23507", "snarfed"),
     Mention("11018", "alice")>>}

Hashtag(name) ==
  [name |-> name,
   url |-> IF name = None THEN None ELSE "http://foo.com/tags/" \o name]

HashtagSeqs ==
  {<<>>, <<Hashtag("indieweb"), Hashtag("indieweb")>>, <<Hashtag(None)>>}

Visibilities == {None, "", "public", "private"}

Status(id, account, reblog, content, media_attachments, mentions, tags, in_reply_to_id, visibility) ==
  [tag |-> "dict", id |-> id, account |-> account, reblog |-> reblog,
   content |-> content, media_attachments |-> media_attachments,
   mentions |-> mentions, tags |-> tags, in_reply_to_id |-> in_reply_to_id,
   visibility |-> visibility,
   url |-> IF id = None THEN None ELSE "http://foo.com/@snarfed/" \o id,
   created_at |-> IF id = None THEN None ELSE "2019-07-29",
   application |-> IF visibility = "public"
                     THEN [tag |-> "dict", name |-> "my app", url |-> "http://app"]
                     ELSE NoneRec]

\* the statuses a reblog wraps: the test's STATUS, one without content, one
\* without account, one without id
Reblogged ==
  LET bob == Account("999", "bob", "http://foo.com/@bob", None, <<>>)
      reblogged(id, account, content) ==
        Status(id, account, NoneRec, content, <<>>, <<Mention("11018", "alice")>>,
               <<Hashtag("indieweb")>>, None, "public")
  IN  {reblogged("123", bob, "<p>foo</p>"), reblogged("123", bob, None),
       reblogged("123", NoneRec, "<p>foo</p>"), reblogged(None, bob, "<p>foo</p>")}

Statuses ==
  {Status(id, account, reblog, content, media_attachments, mentions, tags,
          in_reply_to_id, visibility) :
     id \in {None, "789"}, account \in StatusAccounts,
     reblog \in {NoneRec} \cup Reblogged, content \in {None, "<p>bar</p>"},
     media_attachments \in AttachmentSeqs, mentions \in MentionSeqs,
     tags \in HashtagSeqs, in_reply_to_id \in {None, "456"},
     visibility \in Visibilities}

----------------------------------------------------------------------------
(* Mastodon: conversion to ActivityStreams. A conversion gives a dict, the *)
(* empty dict {} or the exception it raises.                               *)

EmptyDict == [tag |-> "empty"]

Raised(exc) == [tag |-> "raise", exc |-> exc]

IsRaised(v) == v.tag = "raise"

\* util.tag_uri(domain, name): 'tag:<domain>:<name>'
tag_uri(name) == "tag:" \o InstanceHost \o ":" \o name

\* util.trim_nulls on a list of values: None and empty entries go
trim_nulls(seq) == SelectSeq(seq, LAMBDA x : x # None)

\* [util.parse_html(f.get('value')).find('a')['href'] for f in fields
\*  if f.get('name') == 'Web site']: find('a') is None where there is no link
web_sites(account) ==
  LET sites == SelectSeq(account.fields, LAMBDA f : f.name = "Web site")
  IN  IF \E k \in 1..Len(sites) : ~sites[k].value.a
        THEN Raised("TypeError")
        ELSE [tag |-> "list", items |-> [k \in 1..Len(sites) |-> sites[k].value.href]]

actor_id_numeric(account) == tag_uri(account.id)

actor_id(account) == tag_uri(account.username)

\* 'urls': [{'value': u} for u in [url] + web_sites], nulls trimmed
actor_urls(url, sites) == trim_nulls(<<url>> \o sites)

account_to_actor(account) ==
  IF account = NoneRec THEN Raised("AttributeError")
  ELSE IF Falsy(account.username) THEN EmptyDict
  ELSE LET sites == web_sites(account)
       IN  IF IsRaised(sites) THEN sites
           ELSE [tag |-> "dict",
                 objectType |-> "person",
                 id |-> actor_id(account),
                 numeric_id |-> account.id,
                 username |-> account.username,
                 displayName |-> IF Falsy(account.display_name)
                                   THEN account.username ELSE account.display_name,
                 url |-> account.url,
                 urls |-> actor_urls(account.url, sites.items),
                 image |-> account.avatar,
                 published |-> account.created_at,
                 description |-> account.note]

\* one entry of obj['attachments']; a key the code does not set is "absent"
attachment(m) ==
  [id |-> tag_uri(m.id),
   objectType |-> MEDIA_TYPES(m.type),
   displayName |-> m.description,
   image |-> IF m.type = "image" THEN m.url
             ELSE IF m.type \in {"gifv", "video"} THEN m.preview_url
             ELSE "absent",
   stream |-> IF m.type \in {"gifv", "video"} THEN m.url ELSE "absent"]

attachments(status) ==
  [k \in 1..Len(status.media_attachments) |-> attachment(status.media_attachments[k])]

mention_tag(t) ==
  [objectType |-> "mention", id |-> tag_uri(t.id), url |-> t.url,
   displayName |-> t.username]

hashtag_tag(t) ==
  [objectType |-> "hashtag", id |-> None, url |-> t.url, displayName |-> t.name]

tags_deduped(status) ==
  LET all == [k \in 1..Len(status.mentions) |-> mention_tag(status.mentions[k])]
               \o [k \in 1..Len(status.tags) |-> hashtag_tag(status.tags[k])]
  IN  SelectSeq(all, LAMBDA t : t = all[CHOOSE k \in 1..Len(all) :
                                          /\ all[k].url = t.url
                                          /\ \A j \in 1..(k - 1) : all[j].url # t.url])

\* obj['tags']: the mentions, then the hashtags
object_tags(status) ==
  [k \in 1..Len(status.mentions) |-> mention_tag(status.mentions[k])]
    \o [k \in 1..Len(status.tags) |-> hashtag_tag(status.tags[k])]

NoBoost == [url |-> None, username |-> None]

\* 'Boosted <a href="%s">@%s</a>: ' + content
object_content(status) ==
  LET base_status == IF status.reblog # NoneRec THEN status.reblog ELSE status
      content == IF Falsy(base_status.content) THEN "" ELSE base_status.content
  IN  IF status.reblog # NoneRec /\ ~Falsy(status.reblog.content)
        THEN [boosted |-> [url |-> status.reblog.account.url,
                           username |-> status.reblog.account.username],
              text |-> content]
        ELSE [boosted |-> NoBoost, text |-> content]

in_reply_to(status) ==
  IF Falsy(status.in_reply_to_id) THEN <<>>
  ELSE <<[id |-> tag_uri(status.in_reply_to_id),
          url |-> "http://" \o InstanceHost \o "/TODO/status/" \o status.in_reply_to_id]>>

object_to_always(status) ==
  IF Falsy(status.visibility)
    THEN <<[objectType |-> "group", alias |-> "@public"]>>
    ELSE <<[objectType |-> "group", alias |-> "@" \o status.visibility]>>

\* obj['to'] = [{'objectType': 'group', 'alias': '@' + visibility}]
object_to(status) ==
  IF Falsy(status.visibility) THEN <<>>
  ELSE <<[objectType |-> "group", alias |-> "@" \o status.visibility]>>

\* Source.postprocess_object: nulls and empty values are trimmed, so an
\* author {} is no author
postprocess_object(obj) ==
  [obj EXCEPT !.author = IF @ = EmptyDict THEN NoneRec ELSE @]

\* first = obj['attachments'][0]; obj['stream'] = first['stream'] for a video,
\* obj['image'] = first['image'] otherwise
first_media(atts) ==
  IF atts = <<>> THEN [image |-> None, stream |-> None]
  ELSE IF atts[1].objectType = "video" THEN [image |-> None, stream |-> atts[1].stream]
  ELSE IF atts[1].image = "absent" THEN Raised("KeyError")
  ELSE [image |-> atts[1].image, stream |-> None]

author_of(account) == account_to_actor(account)

status_to_object(status) ==
  IF Falsy(status.id) THEN EmptyDict
  ELSE LET author == author_of(status.account)
           first == first_media(attachments(status))
       IN  IF IsRaised(author) THEN author
           ELSE IF "tag" \in DOMAIN first THEN first
           ELSE IF /\ status.reblog # NoneRec
                   /\ ~Falsy(status.reblog.content)
                   /\ status.reblog.account = NoneRec
             THEN Raised("AttributeError")
           ELSE postprocess_object(
                  [tag |-> "dict",
                   objectType |-> "note",
                   id |-> tag_uri(status.id),
                   url |-> status.url,
                   published |-> status.created_at,
                   author |-> author,
                   attachments |-> attachments(status),
                   image |-> first.image,
                   stream |-> first.stream,
                   tags |-> object_tags(status),
                   content |-> object_content(status),
                   inReplyTo |-> in_reply_to(status),
                   to |-> object_to(status),
                   replies |-> <<>>])

\* obj.get(key) of the object just converted, which may be {}
obj_get(obj, key, default) == IF obj = EmptyDict THEN default ELSE obj[key]

generator(status) ==
  IF status.application = NoneRec THEN NoneRec
  ELSE [displayName |-> status.application.name, url |-> status.application.url]

\* the activity dict and its update for a reblog
activity_of(status, obj, shared) ==
  [tag |-> "dict",
   objectType |-> IF status.reblog # NoneRec THEN "activity" ELSE None,
   verb |-> IF status.reblog # NoneRec THEN "share" ELSE "post",
   published |-> obj_get(obj, "published", None),
   id |-> obj_get(obj, "id", None),
   url |-> obj_get(obj, "url", None),
   actor |-> obj_get(obj, "author", NoneRec),
   object |-> IF status.reblog # NoneRec THEN shared ELSE obj,
   context |-> obj_get(obj, "inReplyTo", <<>>),
   generator |-> generator(status)]

\* Source.postprocess_activity: nulls and empty values are trimmed, so an
\* object {} is no object
postprocess_activity(activity) ==
  [activity EXCEPT !.object = IF @ = EmptyDict THEN NoneRec ELSE @]

status_to_activity(status) ==
  LET obj == status_to_object(status)
      shared == IF status.reblog # NoneRec
                  THEN status_to_object(status.reblog) ELSE EmptyDict
  IN  IF IsRaised(obj) THEN obj
      ELSE IF IsRaised(shared) THEN shared
      ELSE postprocess_activity(activity_of(status, obj, shared))

----------------------------------------------------------------------------
(* Mastodon: the conversions as calls, the constructor, fetching *)

API_ACCOUNT_STATUSES == "/api/v1/accounts/%s/statuses"
API_CONTEXT == "/api/v1/statuses/%s/context"
API_VERIFY_CREDENTIALS == "/api/v1/accounts/verify_credentials"

\* the user id the adapter was constructed with
UserId == "23507"

\* a call that makes no request returns what its function gives, or raises
Gives(v) ==
  /\ pc' = IF IsRaised(v) THEN "raised" ELSE "done"
  /\ result' = v
  /\ UNCHANGED <<requests, mastodon_vars, ids_to_try, fetch_vars>>

StatusToActivity ==
  /\ pc = "idle"
  /\ \E status \in Statuses :
       /\ call' = [fn |-> "status_to_activity", status |-> status]
       /\ Gives(status_to_activity(status))

StatusToObject ==
  /\ pc = "idle"
  /\ \E status \in Statuses :
       /\ call' = [fn |-> "status_to_object", status |-> status]
       /\ Gives(status_to_object(status))

AccountToActor ==
  /\ pc = "idle"
  /\ \E account \in Accounts :
       /\ call' = [fn |-> "account_to_actor", account |-> account]
       /\ Gives(account_to_actor(account))

\* Mastodon(instance, access_token, user_id=None)
Constructor ==
  /\ pc = "idle"
  /\ \E user_id \in {None, UserId} :
       /\ call' = [fn |-> "__init__", user_id |-> user_id]
       /\ IF Falsy(user_id)
            THEN pc' = "verify_credentials" /\ result' = NoResult
            ELSE pc' = "done" /\ result' = [tag |-> "Mastodon", user_id |-> user_id]
  /\ UNCHANGED <<requests, mastodon_vars, ids_to_try, fetch_vars>>

\* creds = self._get(API_VERIFY_CREDENTIALS); self.user_id = creds['id']
VerifyCredentials ==
  /\ pc = "verify_credentials"
  /\ \E resp \in Responses({[id |-> UserId, url |-> NoUrl]}) :
       /\ requests' = Append(requests,
            ApiExchange("GET", API_VERIFY_CREDENTIALS, <<>>, NoData, NoUrl, resp))
       /\ IF resp.status = 200
            THEN pc' = "done" /\ result' = [tag |-> "Mastodon", user_id |-> resp.body.id]
            ELSE Raise
  /\ UNCHANGED <<call, mastodon_vars, ids_to_try, fetch_vars>>

\* the keyword arguments of get_activities_response: the ones given a true value
OptionNames ==
  {"user_id", "group_id", "app_id", "activity_id", "fetch_replies", "fetch_likes",
   "fetch_shares", "fetch_events", "fetch_mentions", "search_query"}

\* if (fetch_shares or fetch_events or fetch_mentions or search_query or
\*     group_id or user_id or activity_id): raise NotImplementedError()
not_implemented(options) ==
  options \cap {"fetch_shares", "fetch_events", "fetch_mentions", "search_query",
                "group_id", "user_id", "activity_id"} # {}

GetActivitiesResponse ==
  /\ pc = "idle"
  /\ \E options \in SUBSET OptionNames :
       /\ call' = [fn |-> "get_activities_response", options |-> options]
       /\ IF not_implemented(options)
            THEN pc' = "raised" /\ result' = Raised("NotImplementedError")
            ELSE pc' = "account_statuses" /\ result' = NoResult
  /\ UNCHANGED <<requests, mastodon_vars, ids_to_try, fetch_vars>>

\* the statuses a server lists: the test's STATUS and REPLY_STATUS, a reblog,
\* a status without id, a status without account
FetchedStatuses ==
  LET snarfed == Account("23507", "snarfed", "http://foo.com/@snarfed", None, <<>>)
      status(id, account, reblog, in_reply_to_id) ==
        Status(id, account, reblog, "<p>bar</p>", <<>>, <<>>, <<>>, in_reply_to_id, "public")
      STATUS == status("123", snarfed, NoneRec, None)
  IN  {STATUS, status("123", snarfed, NoneRec, "456"), status("789", snarfed, STATUS, None),
       status(None, snarfed, NoneRec, None), status("123", NoneRec, NoneRec, None)}

SeqsUpTo(S, n) == UNION {[1..k -> S] : k \in 0..n}

ListResponses(S, n) ==
  {[status |-> 200, body |-> b] : b \in SeqsUpTo(S, n)}
    \cup {[status |-> s, body |-> <<>>] : s \in ErrorStatuses}

\* Source.make_activities_base_response
make_activities_base_response(items) == [tag |-> "response", items |-> items]

\* the for loop over the statuses goes on, or the response is returned
NextStatus(rest, done) ==
  /\ statuses' = rest
  /\ activities' = done
  /\ IF rest = <<>>
       THEN pc' = "done" /\ result' = make_activities_base_response(done)
       ELSE pc' = "status" /\ result' = NoResult

\* statuses = self._get(API_ACCOUNT_STATUSES % self.user_id)
AccountStatuses ==
  /\ pc = "account_statuses"
  /\ \E resp \in ListResponses(FetchedStatuses, MaxStatuses) :
       /\ requests' = Append(requests,
            ApiExchange("GET", API_ACCOUNT_STATUSES, <<UserId>>, NoData, NoUrl, resp))
       /\ IF resp.status = 200
            THEN NextStatus(resp.body, <<>>)
            ELSE Raise /\ UNCHANGED fetch_vars
  /\ UNCHANGED <<call, mastodon_vars, ids_to_try>>

\* one turn of the loop: activity = self.status_to_activity(status),
\* activities.append(activity), and the context is fetched for a status
\* that has an id when fetch_replies is set
ConvertStatus ==
  /\ pc = "status"
  /\ LET status == Head(statuses)
         activity == status_to_activity(status)
     IN  IF IsRaised(activity)
           THEN pc' = "raised" /\ result' = activity /\ UNCHANGED fetch_vars
         ELSE IF ~Falsy(status.id) /\ "fetch_replies" \in call.options
           THEN /\ pc' = "context"
                /\ activities' = Append(activities, activity)
                /\ UNCHANGED <<statuses, result>>
         ELSE NextStatus(Tail(statuses), Append(activities, activity))
  /\ UNCHANGED <<call, requests, mastodon_vars, ids_to_try>>

replies_of_first(descendants) ==
  LET first == IF descendants = <<>> THEN <<>> ELSE <<status_to_activity(Head(descendants))>>
  IN  IF first # <<>> /\ IsRaised(first[1]) THEN first[1]
      ELSE [tag |-> "list", items |-> first]

\* [self.status_to_activity(reply) for reply in context.get('descendants', [])]
replies_of(descendants) ==
  LET items == [k \in 1..Len(descendants) |-> status_to_activity(descendants[k])]
  IN  IF \E k \in 1..Len(items) : IsRaised(items[k])
        THEN items[CHOOSE k \in 1..Len(items) :
                     IsRaised(items[k]) /\ \A j \in 1..(k - 1) : ~IsRaised(items[j])]
        ELSE [tag |-> "list", items |-> items]

\* context = self._get(API_CONTEXT % id);
\* activity['object']['replies'] = {'items': [...]}
Context ==
  /\ pc = "context"
  /\ \E resp \in ListResponses({s \in FetchedStatuses : s.in_reply_to_id # None \/ s.account = NoneRec},
                               MaxStatuses) :
       /\ requests' = Append(requests,
            ApiExchange("GET", API_CONTEXT, <<Head(statuses).id>>, NoData, NoUrl, resp))
       /\ IF resp.status # 200 THEN Raise /\ UNCHANGED fetch_vars
          ELSE LET replies == replies_of(resp.body)
                   last == Len(activities)
               IN  IF IsRaised(replies)
                     THEN pc' = "raised" /\ result' = replies /\ UNCHANGED fetch_vars
                     ELSE NextStatus(Tail(statuses),
                            [activities EXCEPT ![last].object.replies = replies.items])
  /\ UNCHANGED <<call, mastodon_vars, ids_to_try>>

----------------------------------------------------------------------------
(* Facebook: conversion to ActivityStreams, as facebook_test.py expects it. *)
(* A tag's startIndex and length are -1 where the payload gives no offset. *)

fb_tag_uri(name) == "tag:facebook.com:" \o name

\* a user payload: its website holds whitespace-separated words, of which
\* the ones starting with http are urls
FbUsers ==
  {[id |-> id, username |-> username, website |-> website, link |-> link] :
     id \in {None, "212038"}, username \in {None, "snarfed.org"},
     website \in {<<>>, <<"x", "http://a", "y.com", "http://b", "http://c">>},
     link \in {<<>>, <<"http://b", "http://c", "http://a">>}}

\* Facebook.user_to_actor: the id is built from the username, or from the
\* native id when there is no username; website overrides link
user_to_actor(user) ==
  LET name == IF Falsy(user.username) THEN user.id ELSE user.username
      is_url(word) == word \in {"http://a", "http://b", "http://c"}
      urls == IF SelectSeq(user.website, is_url) # <<>>
                THEN SelectSeq(user.website, is_url)
              ELSE IF SelectSeq(user.link, is_url) # <<>>
                THEN SelectSeq(user.link, is_url)
              ELSE <<"https://facebook.com/" \o name>>
  IN  IF Falsy(name) THEN EmptyDict
      ELSE [tag |-> "dict", id |-> fb_tag_uri(name), numeric_id |-> user.id,
            username |-> user.username, url |-> urls[1],
            urls |-> IF Len(urls) > 1 THEN urls ELSE <<>>]

\* the people and the message tags of the tests' POST and COMMENTS
FbPosts ==
  LET person(id, name) == [id |-> id, name |-> name, offset |-> -1, length |-> -1]
      sam == [id |-> "221330", name |-> "Sam G", offset |-> 3, length |-> 5]
      michael == [id |-> "695687650", name |-> "Michael Mandel", offset |-> 10, length |-> 9]
  IN  {[id |-> id, from |-> from, to |-> to, with_tags |-> with_tags,
        message_tags |-> message_tags, privacy |-> privacy] :
         id \in {None, "212038_10100176064482163"},
         from \in {NoneRec, [tag |-> "dict", id |-> "212038", name |-> "Ryan Barrett"]},
         to \in {<<>>, <<person("234", "Friend 1"), person("345", "Friend 2")>>},
         with_tags \in {<<>>, <<person("345", "Friend 2"), person("456", "Friend 3")>>},
         message_tags \in {[type |-> "list", groups |-> <<>>],
                           [type |-> "list", groups |-> <<<<sam, michael>>>>],
                           [type |-> "dict", groups |-> <<<<sam>>, <<michael>>>>],
                           [type |-> "dict", groups |-> <<<<sam, sam>>, <<michael>>>>]},
         privacy \in {"", "EVERYONE", "OPEN", "FRIENDS", "SELF"}}

\* the orders in which the lists of a message_tags payload are taken: there
\* is one for a list, and a dict keyed by offset has no order of its own
Orders(message_tags) ==
  LET n == Len(message_tags.groups)
  IN  {order \in [1..n -> 1..n] : \A i, j \in 1..n : order[i] = order[j] => i = j}

\* obj['tags']: the people of 'to', of 'with_tags', then the message tags
fb_tags(post, order) ==
  LET flat == IF Len(order) = 2
                THEN post.message_tags.groups[order[1]] \o post.message_tags.groups[order[2]]
              ELSE IF Len(order) = 1 THEN post.message_tags.groups[1] ELSE <<>>
      all == post.to \o post.with_tags \o flat
  IN  [k \in 1..Len(all) |->
         [id |-> fb_tag_uri(all[k].id), url |-> "https://facebook.com/" \o all[k].id,
          displayName |-> all[k].name, startIndex |-> all[k].offset,
          length |-> all[k].length]]

\* obj['to']: '' "means public", as do EVERYONE and OPEN
fb_to(privacy) ==
  IF privacy \in {"", "EVERYONE", "OPEN"}
    THEN <<[objectType |-> "group", alias |-> "@public"]>>
    ELSE <<[objectType |-> "group", alias |-> "@private"]>>

\* Facebook.post_to_object, and comment_to_object for a comment
post_to_object(post, order) ==
  IF Falsy(post.id) THEN EmptyDict
  ELSE [tag |-> "dict", id |-> fb_tag_uri(post.id),
        author |-> IF post.from = NoneRec THEN NoneRec
                   ELSE user_to_actor([id |-> post.from.id, username |-> None,
                                       website |-> <<>>, link |-> <<>>]),
        tags |-> fb_tags(post, order),
        to |-> fb_to(post.privacy)]

UserToActor ==
  /\ pc = "idle"
  /\ \E user \in FbUsers :
       /\ call' = [fn |-> "user_to_actor", user |-> user]
       /\ Gives(user_to_actor(user))

PostToObject ==
  /\ pc = "idle"
  /\ \E post \in FbPosts :
       \E order \in Orders(post.message_tags) :
         /\ call' = [fn |-> "post_to_object", post |-> post, order |-> order]
         /\ Gives(post_to_object(post, order))

----------------------------------------------------------------------------
(* microformats2.render_content: the tags that carry offsets are spliced   *)
(* into the content as anchors. Content is a sequence of characters, the   *)
(* output a sequence of characters and markup.                             *)

\* a tag of an object: startIndex and length are -1 and url and displayName
\* None when the tag does not have them
Tag(startIndex, length, url, displayName) ==
  [startIndex |-> startIndex, length |-> length, url |-> url, displayName |-> displayName]

\* the objects that are rendered. A character is one code point; "U+1F4AF"
\* is the '100' emoji, which lies above the Basic Multilingual Plane.
\*  - the tests' comment 'cc Sam G, Michael M' with its two message tags
\*  - the tests' '(three emoji) (by @itsmaeril)' with its mention
\*  - contents of at most MaxContent characters with up to two tags that
\*    have offsets and a url, in any order
\*  - 'foo' with at most MaxTags tags that have no offsets, and the tests'
\*    three of them
Contents ==
  LET SamAndMichael ==
        [content |-> <<"c", "c", " ", "S", "a", "m", " ", "G", ",", " ",
                       "M", "i", "c", "h", "a", "e", "l", " ", "M">>,
         tags |-> <<Tag(3, 5, "https://facebook.com/221330", None),
                    Tag(10, 9, "https://facebook.com/695687650", None)>>]
      ByMaeril ==
        [content |-> <<"U+1F4AF", "U+1F4AF", "U+1F4AF", " ", "(", "b", "y", " ",
                       "@", "i", "t", "s", "m", "a", "e", "r", "i", "l", ")">>,
         tags |-> <<Tag(8, 10, "https://twitter.com/itsmaeril", "Maeril")>>]
      Texts == UNION {[1..n -> {"a", "&", "\n", "U+1F4AF"}] : n \in 0..MaxContent}
      Spans == {Tag(s, l, "http://baz", None) :
                  s \in 0..MaxContent, l \in 1..MaxContent}
      Short == {t \in Spans : t.startIndex + t.length <= MaxContent}
      Loose == {Tag(-1, -1, url, name) :
                  url \in {None, "http://baj", "http://baz"}, name \in {None, "bar", "baz"}}
      Foo == <<"f", "o", "o">>
  IN  {SamAndMichael, ByMaeril}
        \cup {[content |-> c, tags |-> <<>>] : c \in Texts}
        \cup {[content |-> c, tags |-> <<t>>] : c \in Texts, t \in Short}
        \cup {[content |-> c, tags |-> <<t, u>>] : c \in Texts, t \in Short, u \in Short}
        \cup {[content |-> Foo, tags |-> tags] : tags \in SeqsUpTo(Loose, MaxTags)}
        \cup {[content |-> Foo,
               tags |-> <<Tag(-1, -1, None, "bar"), Tag(-1, -1, "http://baz", "baz"),
                          Tag(-1, -1, "http://baj", None)>>]}

utf16_units(c) == IF c = "U+1F4AF" THEN 2 ELSE 1

\* util.WideUnicode: what a character counts in an offset: every code
\* point counts one, those above the Basic Multilingual Plane too
WideUnicode(c) == 1

anchor_end_after(t, n) ==
  IF t.startIndex + t.length + 1 > n THEN n ELSE t.startIndex + t.length + 1

\* where a tag's anchor closes: startIndex + length, clamped to the content
anchor_end(t, n) ==
  IF t.startIndex + t.length > n THEN n ELSE t.startIndex + t.length

\* the content with an opening marker before the character at startIndex
\* and a closing marker where the tag ends, for each tag on its own; the
\* content's characters go into the output as they are
linkify(content, tags) ==
  LET offset[i \in 0..Len(content)] ==
        IF i = 0 THEN 0 ELSE offset[i - 1] + WideUnicode(content[i])
      n == offset[Len(content)]
      closes(b) == [k \in 1..Len(SelectSeq(tags, LAMBDA t : anchor_end(t, n) = b)) |-> "</a>"]
      starting(b) == SelectSeq(tags, LAMBDA t : t.startIndex = b)
      opens(b) == [k \in 1..Len(starting(b)) |-> "<a href=\"" \o starting(b)[k].url \o "\">"]
      upto[i \in 0..Len(content)] ==
        IF i = 0 THEN opens(0)
        ELSE upto[i - 1] \o <<content[i]>> \o closes(offset[i]) \o opens(offset[i])
  IN  upto[Len(content)]

tags_to_html_every_tag(tags) ==
  [k \in 1..Len(tags) |->
     IF tags[k].url = None
       THEN "\n<a class=\"tag\" aria-hidden=\"true\"></a>"
     ELSE IF tags[k].displayName = None
       THEN "\n<a class=\"tag\" aria-hidden=\"true\" href=\"" \o tags[k].url \o "\"></a>"
     ELSE "\n<a class=\"tag\" href=\"" \o tags[k].url \o "\">" \o tags[k].displayName \o "</a>"]

\* the anchors of the tags that are not spliced into the content: one for
\* each url and name, by ascending url; without a name the anchor is empty
\* and aria-hidden, and a tag without a url has no anchor
tags_to_html(tags) ==
  LET urls == <<"http://baj", "http://baz">>
      names == <<None, "bar", "baz">>
      Has(url, name) == \E k \in 1..Len(tags) : tags[k].url = url /\ tags[k].displayName = name
      anchor(url, name) ==
        IF ~Has(url, name) THEN <<>>
        ELSE IF name = None
          THEN <<"\n<a class=\"tag\" aria-hidden=\"true\" href=\"" \o url \o "\"></a>">>
        ELSE <<"\n<a class=\"tag\" href=\"" \o url \o "\">" \o name \o "</a>">>
      of_url(url) == anchor(url, names[1]) \o anchor(url, names[2]) \o anchor(url, names[3])
  IN  of_url(urls[1]) \o of_url(urls[2])

\* the linkified content, inside '<div style="white-space: pre">%s</div>'
\* when it has newlines, or with each newline turned into '<br />' and a
\* newline when white_space_pre is off, then the anchors of the other tags
render_content(obj, white_space_pre) ==
  LET mentions == SelectSeq(obj.tags, LAMBDA t : t.startIndex >= 0 /\ t.length >= 0 /\ t.url # None)
      others == SelectSeq(obj.tags, LAMBDA t : ~(t.startIndex >= 0 /\ t.length >= 0 /\ t.url # None))
      html == linkify(obj.content, mentions)
      n == Len(html)
      brs[i \in 0..n] ==
        IF i = 0 THEN <<>>
        ELSE brs[i - 1] \o (IF html[i] = "\n" THEN <<"<br />", "\n">> ELSE <<html[i]>>)
      content == IF \A i \in 1..n : html[i] # "\n" THEN html
                 ELSE IF white_space_pre
                   THEN <<"<div style=\"white-space: pre\">">> \o html \o <<"</div>">>
                 ELSE brs[n]
  IN  [tag |-> "html", html |-> content \o tags_to_html(others)]

\* render_content on an object whose tags with offsets lie inside the
\* content and do not overlap
RenderContent ==
  /\ pc = "idle"
  /\ \E obj \in Contents, white_space_pre \in BOOLEAN :
       /\ \A i, j \in 1..Len(obj.tags) :
            (i # j /\ obj.tags[i].startIndex >= 0 /\ obj.tags[j].startIndex >= 0)
              => \/ obj.tags[i].startIndex + obj.tags[i].length <= obj.tags[j].startIndex
                 \/ obj.tags[j].startIndex + obj.tags[j].length <= obj.tags[i].startIndex
       /\ \A i \in 1..Len(obj.tags) :
            obj.tags[i].startIndex + obj.tags[i].length <= Len(obj.content)
       /\ call' = [fn |-> "render_content", obj |-> obj, white_space_pre |-> white_space_pre]
       /\ Gives(render_content(obj, white_space_pre))

----------------------------------------------------------------------------
(* microformats2.json_to_object and object_to_json: an h-entry tree and    *)
(* the object it stands for. A property that a tree does not have is None, *)
(* a coordinate that is not there NoCoord.                                 *)

NoCoord == 1000

\* the h-entry trees that are converted: a like-of or a repost-of, the
\* properties like and repost, in-reply-to together with tag-of, a
\* content, and the places a location can come from: a location property
\* that is an h-card or an h-geo, a geo property that is a set of
\* properties or a geo: URI, and latitude and longitude of the entry
Trees ==
  LET Urls == {None, "http://foo/bar"}
      Relations == {<<None, None>>, <<"http://foo/bar", None>>, <<None, "http://foo/bar">>}
      Locations ==
        {NoneRec,
         [type |-> "h-card", name |-> "Timeless Coffee Roasters",
          url |-> "https://kylewm.com/venues/timeless-coffee-roasters-oakland-california",
          latitude |-> 50, longitude |-> -1],
         [type |-> "h-geo", name |-> None, url |-> None, latitude |-> 51, longitude |-> -2]}
      Geos ==
        {NoneRec,
         [form |-> "properties", latitude |-> 52, longitude |-> -3],
         [form |-> "geo:", latitude |-> 53, longitude |-> -149]}
      TopLevel == {<<NoCoord, NoCoord>>, <<5, -14>>}
  IN  {[like_of |-> of[1], repost_of |-> of[2], like |-> like, repost |-> repost,
        in_reply_to |-> IF both THEN "https://another/post" ELSE None,
        tag_of |-> IF both THEN "https://a/post" ELSE None,
        content |-> content, location |-> location, geo |-> geo,
        latitude |-> top[1], longitude |-> top[2]] :
         of \in Relations, like \in Urls, repost \in Urls, both \in BOOLEAN,
         content \in {None, "foo"}, location \in Locations, geo \in Geos,
         top \in TopLevel}

\* '+50.820641-000.149522/': each coordinate with its sign, the latitude
\* padded with zeros to two digits and the longitude to three
position(latitude, longitude) ==
  LET sign(x) == IF x < 0 THEN "-" ELSE "+"
      abs(x) == IF x < 0 THEN -x ELSE x
      pad(x, width) ==
        (IF width >= 3 /\ abs(x) < 100 THEN "0" ELSE "")
          \o (IF width >= 2 /\ abs(x) < 10 THEN "0" ELSE "")
          \o ToString(abs(x))
  IN  sign(latitude) \o pad(latitude, 2) \o sign(longitude) \o pad(longitude, 3) \o "/"

location_top_level_first(tree) ==
  LET place(lat, long, name, url) ==
        [objectType |-> "place", latitude |-> lat, longitude |-> long,
         position |-> position(lat, long), displayName |-> name, url |-> url]
  IN  IF tree.latitude # NoCoord /\ tree.longitude # NoCoord
        THEN place(tree.latitude, tree.longitude, None, None)
      ELSE IF tree.geo # NoneRec
        THEN place(tree.geo.latitude, tree.geo.longitude, None, None)
      ELSE IF tree.location # NoneRec
        THEN place(tree.location.latitude, tree.location.longitude,
                   tree.location.name, tree.location.url)
      ELSE NoneRec

\* the object's location: from the location property, else from the geo
\* property, properties before a geo: URI, else from the entry's own
\* latitude and longitude
location_of(tree) ==
  LET place(lat, long, name, url) ==
        [objectType |-> "place", latitude |-> lat, longitude |-> long,
         position |-> position(lat, long), displayName |-> name, url |-> url]
  IN  IF tree.location # NoneRec
        THEN place(tree.location.latitude, tree.location.longitude,
                   tree.location.name, tree.location.url)
      ELSE IF tree.geo # NoneRec
        THEN place(tree.geo.latitude, tree.geo.longitude, None, None)
      ELSE IF tree.latitude # NoCoord /\ tree.longitude # NoCoord
        THEN place(tree.latitude, tree.longitude, None, None)
      ELSE NoneRec

post_type_any_name(tree) ==
  IF tree.like_of # None \/ tree.like # None
    THEN [objectType |-> "activity", verb |-> "like"]
  ELSE IF tree.repost_of # None \/ tree.repost # None
    THEN [objectType |-> "activity", verb |-> "share"]
  ELSE [objectType |-> "note", verb |-> None]

\* post type discovery: like-of makes a like, repost-of a share, and an
\* h-entry without them is a note
post_type(tree) ==
  IF tree.like_of # None THEN [objectType |-> "activity", verb |-> "like"]
  ELSE IF tree.repost_of # None THEN [objectType |-> "activity", verb |-> "share"]
  ELSE [objectType |-> "note", verb |-> None]

combined_is_reply(tree) == FALSE

\* an entry that is both a reply and a tag of a post
combined_reply_and_tag_of(tree) == tree.in_reply_to # None /\ tree.tag_of # None

json_to_object(tree) ==
  IF combined_reply_and_tag_of(tree) THEN Raised("NotImplementedError")
  ELSE [tag |-> "object",
        objectType |-> post_type(tree).objectType,
        verb |-> post_type(tree).verb,
        object |-> IF tree.like_of # None THEN tree.like_of ELSE tree.repost_of,
        inReplyTo |-> tree.in_reply_to,
        content |-> tree.content,
        location |-> location_of(tree)]

JsonToObject ==
  /\ pc = "idle"
  /\ \E tree \in Trees :
       /\ call' = [fn |-> "json_to_object", tree |-> tree]
       /\ Gives(json_to_object(tree))

\* the objects that are converted to trees: notes, likes and shares, with
\* an objectType or, as the tests' share, without one
Objects ==
  {[objectType |-> objectType, verb |-> verb,
    object |-> IF verb = None THEN None ELSE "http://orig/post", content |-> content] :
     objectType \in {None, "note", "activity"}, verb \in {None, "like", "share"},
     content \in {None, "original"}}

\* the h-entry of an object: a like's object becomes like-of, a share's
\* repost-of, the content stays
object_to_json(obj) ==
  [tag |-> "json",
   json |-> [like_of |-> IF obj.verb = "like" THEN obj.object ELSE None,
             repost_of |-> IF obj.verb = "share" THEN obj.object ELSE None,
             like |-> None, repost |-> None, in_reply_to |-> None, tag_of |-> None,
             content |-> obj.content, location |-> NoneRec, geo |-> NoneRec,
             latitude |-> NoCoord, longitude |-> NoCoord]]

ObjectToJson ==
  /\ pc = "idle"
  /\ \E obj \in Objects :
       /\ obj.objectType = "note" <=> obj.verb = None
       /\ call' = [fn |-> "object_to_json", obj |-> obj]
       /\ Gives(object_to_json(obj))

----------------------------------------------------------------------------
Next ==
  \/ Create
  \/ PreviewCreate
  \/ Favorite
  \/ Reblog
  \/ MediaFetch
  \/ MediaUpload
  \/ PostStatus
  \/ FbCreate
  \/ FbPreviewCreate
  \/ GetActivities
  \/ GetComment
  \/ LookupSend
  \/ LookupReturn
  \/ Publish
  \/ StatusToActivity
  \/ StatusToObject
  \/ AccountToActor
  \/ UserToActor
  \/ PostToObject
  \/ RenderContent
  \/ JsonToObject
  \/ ObjectToJson
  \/ Constructor
  \/ VerifyCredentials
  \/ GetActivitiesResponse
  \/ AccountStatuses
  \/ ConvertStatus
  \/ Context
  \/ Return

Spec == Init /\ [][Next]_vars

----------------------------------------------------------------------------
(* The fallback chain *)

Finished == pc \in {"done", "raised"}

Failed(e) == e.status \notin {0, 200}

Lookups == SelectSeq(requests, IsLookup)

FetchCall == call.fn \in {"get_activities", "get_comment"}

FbCreateCall == call.fn \in {"fb_create", "fb_preview_create"}

ChainId == IF FetchCall THEN call.id ELSE call.obj.ref.id

ChainHint == IF FetchCall THEN call.hint ELSE call.obj.hint

\* C1: looking up '12_34' with the owner hint '56' issues the lookups '34',
\* '12_34', '56_34' in this order and no fourth; when '34' has failed with a
\* client error and '12_34' with a 500 the call does not end before the third
\* lookup, and it returns what the third lookup found
C1_ThreeAttempts ==
  (call.fn = "get_activities" /\ call.id = <<"12", "34">> /\ call.hint = "56") =>
    LET order == << <<"34">>, <<"12", "34">>, <<"56", "34">> >>
    IN  /\ Len(requests) <= 3
        /\ \A i \in 1..Len(requests) :
             IsLookup(requests[i]) /\ requests[i].arg = order[i]
        /\ (/\ Len(requests) >= 2
            /\ ClientError(requests[1].status)
            /\ requests[2].status = 500
            /\ Finished)
           => /\ Len(requests) = 3
              /\ requests[3].status = 200 =>
                   /\ pc = "done"
                   /\ result = [tag |-> "found", id |-> <<"56", "34">>,
                                body |-> requests[3].body]
              /\ requests[3].status # 200 => pc = "raised"

C1_Witness ==
  /\ pc = "done"
  /\ call.fn = "get_activities"
  /\ call.id = <<"12", "34">>
  /\ call.hint = "56"
  /\ Len(requests) = 3
  /\ requests[1].status = 404
  /\ requests[2].status = 500
  /\ requests[3].status = 200
  /\ result.id = <<"56", "34">>
  /\ result.body.id = "y"

\* C2: a lookup is issued only when every earlier lookup of the call has
\* returned a failure, so at most one is outstanding and none follows a
\* success; get_activities of '12_34' makes one request when the first lookup
\* works, two when the first fails and the second works
C2_Sequential ==
  (FetchCall \/ FbCreateCall) =>
    /\ \A i \in 1..Len(Lookups) :
         i < Len(Lookups) => Failed(Lookups[i])
    /\ (call.fn = "get_activities" /\ call.id = <<"12", "34">> /\ Finished) =>
         /\ requests[1].status = 200 => Len(requests) = 1
         /\ (Len(requests) >= 2 /\ requests[2].status = 200) =>
              Failed(requests[1]) /\ Len(requests) = 2

C2_Witness ==
  /\ pc = "done"
  /\ call.fn = "get_activities"
  /\ call.id = <<"12", "34">>
  /\ Len(requests) = 2
  /\ requests[1].status = 404
  /\ requests[2].status = 200
  /\ requests[2].arg = <<"12", "34">>

----------------------------------------------------------------------------
(* Publishing *)

MastodonCall == call.fn \in {"create", "preview_create"}

\* the url of the object's target reference
Target(obj) == IF obj.inReplyTo # NoUrl THEN obj.inReplyTo ELSE obj.object

Resolvable(obj) == Target(obj).host = InstanceHost

Reacts(obj) == obj.objectType = "activity" /\ obj.verb \in {"like", "share"}

Replies(obj) == obj.objectType = "comment" \/ obj.inReplyTo # NoUrl

\* the status POST, favourite or reblog addressed to the native id
IsCreateCall(e, id) ==
  /\ e.method = "POST"
  /\ e.host = InstanceHost
  /\ \/ e.path = API_STATUSES /\ e.json.in_reply_to_id = id
     \/ e.path \in {API_FAVORITE, API_REBLOG} /\ e.arg = <<id>>

\* the object's media items that have a url: images, then videos
Items(obj) == SelectSeq(obj.image \o obj.stream, LAMBDA m : m.url # NoUrl)

IsFetchOf(e, item) ==
  /\ e.method = "GET"
  /\ e.host = item.url.host
  /\ e.path = item.url.path
  /\ e.auth = None

IsUploadOf(e, item) ==
  /\ e.method = "POST"
  /\ e.host = InstanceHost
  /\ e.path = API_MEDIA
  /\ e.file = item.url

IsMediaRequest(e, obj) ==
  \E k \in 1..Len(Items(obj)) :
    IsFetchOf(e, Items(obj)[k]) \/ IsUploadOf(e, Items(obj)[k])

IsFbCreateCall(e, id) ==
  /\ e.method = "POST"
  /\ e.host = GRAPH
  /\ e.path \in {API_COMMENTS, API_LIKES}
  /\ e.arg = id

\* the call has returned the object it created
Created == pc = "done" /\ result.content.tag = "dict"

FbNativeReply ==
  /\ call.fn = "fb_create"
  /\ call.obj.objectType = "comment"
  /\ call.obj.ref.url \in FbPostUrls

\* C5, as claimed: create of a reply whose target url is native issues the
\* create call, addressed to the id in the url, and no other request
C5_OnlyCreateCall ==
  /\ (call.fn = "create" /\ Replies(call.obj) /\ Resolvable(call.obj)) =>
       \A i \in 1..Len(requests) :
         IsCreateCall(requests[i], Target(call.obj).path[2])
  /\ FbNativeReply =>
       \A i \in 1..Len(requests) : IsFbCreateCall(requests[i], <<"333">>)

\* C5, amended: create of a reply whose target url is native issues no lookup:
\* apart from the fetch and the upload of the reply's own media items its
\* only request is the create call, addressed to the id in the url
C5_NoLookup ==
  /\ (call.fn = "create" /\ Replies(call.obj) /\ Resolvable(call.obj)) =>
       LET id == Target(call.obj).path[2]
           calls == {i \in 1..Len(requests) : IsCreateCall(requests[i], id)}
       IN  /\ \A i \in 1..Len(requests) :
                i \in calls \/ IsMediaRequest(requests[i], call.obj)
           /\ Cardinality(calls) <= 1
           /\ Created => Cardinality(calls) = 1
  /\ FbNativeReply =>
       /\ \A i \in 1..Len(requests) : IsFbCreateCall(requests[i], <<"333">>)
       /\ Len(requests) <= 1
       /\ Created => Len(requests) = 1

C5_Witness ==
  /\ pc = "done"
  /\ call.fn = "create"
  /\ call.obj.objectType = "comment"
  /\ call.obj.inReplyTo = [host |-> InstanceHost, path |-> <<"@other", "123">>]
  /\ Len(requests) = 3
  /\ requests[3].path = API_STATUSES
  /\ requests[3].json.in_reply_to_id = "123"

CouldNotFind == {REPLY_PLAIN, FAVORITE_PLAIN, BOOST_PLAIN, COULD_NOT_FIND_PLAIN}

AbortedUnsent ==
  /\ pc = "done"
  /\ requests = <<>>
  /\ result.tag = "CreationResult"
  /\ result.abort
  /\ result.error_plain \in CouldNotFind

FbUnresolvable ==
  /\ FbCreateCall
  /\ ~Reacts(call.obj) \/ call.obj.verb = "like"
  /\ call.obj.ref.url \notin FbPostUrls
  /\ call.obj.ref.id = NoId

Unmatched(obj) ==
  /\ ~Replies(obj)
  /\ ~Reacts(obj)
  /\ obj.objectType \notin {"note", "article"}
  /\ obj.verb \notin {"rsvp-yes", "invite"}

RefusedUnsent(abort, messages) ==
  /\ pc = "done"
  /\ requests = <<>>
  /\ result.tag = "CreationResult"
  /\ result.abort = abort
  /\ result.error_plain \in messages
  /\ result.error_html # None

FbShare == FbCreateCall /\ Reacts(call.obj) /\ call.obj.verb = "share"

\* C7, as claimed: on every adapter an object no handler takes gets a result
\* with an error and abort unset, and no request
C7_NeverAborts ==
  /\ (MastodonCall /\ Unmatched(call.obj)) =>
       RefusedUnsent(FALSE, {NO_CONTENT, CANNOT_PUBLISH})
  /\ FbShare => RefusedUnsent(FALSE, {CANNOT_SHARES_PLAIN})

\* C7, amended: the Mastodon adapter answers an object no handler takes with
\* an error and abort unset; the Facebook adapter answers a share with the
\* "Cannot publish shares" error and abort set; neither issues a request
C7_Unsupported ==
  /\ (MastodonCall /\ Unmatched(call.obj)) =>
       RefusedUnsent(FALSE, {NO_CONTENT, CANNOT_PUBLISH})
  /\ FbShare => RefusedUnsent(TRUE, {CANNOT_SHARES_PLAIN})

C7_Witness ==
  /\ pc = "done"
  /\ call.fn = "create"
  /\ call.obj.objectType = "activity"
  /\ call.obj.verb = "tag"
  /\ ~result.abort
  /\ result.error_plain = CANNOT_PUBLISH
  /\ result.error_html = CANNOT_PUBLISH

\* C8: a CreationResult carries error_plain exactly when it carries
\* error_html, and one with abort set carries both
C8_BothMessages ==
  result.tag = "CreationResult" =>
    /\ result.error_plain = None <=> result.error_html = None
    /\ result.abort => result.error_plain # None /\ result.error_html # None

C8_Witness ==
  /\ call.fn = "preview_create"
  /\ result.tag = "CreationResult"
  /\ result.abort
  /\ result.error_plain = BOOST_PLAIN
  /\ result.error_html = BOOST_HTML

\* C9: preview_create returns its result without any transport request
C9_PreviewNoRequest ==
  call.fn = "preview_create" =>
    /\ pc = "done"
    /\ requests = <<>>
    /\ result.tag = "CreationResult"

C9_Witness ==
  /\ call.fn = "preview_create"
  /\ pc = "done"
  /\ Reacts(call.obj)
  /\ call.obj.verb = "like"
  /\ Len(call.obj.image) > 0
  /\ result.description.tag = "favorite"

PostsStatus(obj) == ~Reacts(obj)

\* C10: create handles the media items that have a url one at a time, images
\* then videos in input order: request 2k-1 is the fetch of item k, request 2k
\* its upload, each issued after the one before has succeeded; the status
\* POST comes after all of them, once, with the returned ids in this order
C10_MediaOrder ==
  (call.fn = "create" /\ PostsStatus(call.obj)) =>
    LET items == Items(call.obj)
        n == Len(items)
    IN  /\ Len(requests) <= 2 * n + 1
        /\ \A k \in 1..Len(requests) :
             /\ k < Len(requests) => requests[k].status = 200
             /\ (k <= 2 * n /\ k % 2 = 1) => IsFetchOf(requests[k], items[(k + 1) \div 2])
             /\ (k <= 2 * n /\ k % 2 = 0) => IsUploadOf(requests[k], items[k \div 2])
             /\ k = 2 * n + 1 =>
                  /\ requests[k].method = "POST"
                  /\ requests[k].path = API_STATUSES
                  /\ Len(requests[k].json.media_ids) = n
                  /\ \A j \in 1..n :
                       requests[k].json.media_ids[j] = requests[2 * j].body.id
        /\ Created => Len(requests) = 2 * n + 1

C10_Witness ==
  /\ pc = "done"
  /\ call.fn = "create"
  /\ Len(call.obj.image) = 2
  /\ Len(call.obj.stream) = 1
  /\ Len(requests) = 7
  /\ requests[5].host = "video"
  /\ requests[7].json.media_ids = <<"a", "b", "a">>

----------------------------------------------------------------------------
(* No retries *)

\* two requests ask for the same: all but the answer is equal
SameAsk(e, f) ==
  /\ e.method = f.method
  /\ e.host = f.host
  /\ e.arg = f.arg
  /\ e.json = f.json
  /\ e.file = f.file
  /\ e.path = f.path

Count(seq, Test(_)) == Len(SelectSeq(seq, Test))

\* how many steps of the running call ask for the request of e: the context
\* of a status is asked for once per fetched status of that id, everything
\* else once
Demand(e) ==
  IF e.path = API_CONTEXT
    THEN Count(requests[1].body, LAMBDA s : <<s.id>> = e.arg)
    ELSE 1

MediaFailed ==
  \E k \in 1..Len(requests) :
    /\ Failed(requests[k])
    /\ requests[k].path = API_MEDIA \/ (call.fn = "create" /\ requests[k].method = "GET")

\* C11: outside the fallback chain no request is retried: a request that is
\* answered with an error status is the last of its call, which ends raising,
\* no step's request is issued more often than the call has such steps, and
\* after a failed media fetch or upload no status is posted
C11_NoRetry ==
  /\ \A k \in 1..Len(requests) :
       LET e == requests[k]
       IN  ~IsLookup(e) =>
             /\ Failed(e) => k = Len(requests) /\ pc = "raised"
             /\ Count(requests, LAMBDA f : SameAsk(f, e)) <= Demand(e)
  /\ MediaFailed =>
       /\ pc = "raised"
       /\ \A k \in 1..Len(requests) : requests[k].path # API_STATUSES

\* an upload fails after one item went through: four requests, no status POST
C11_Witness ==
  /\ call.fn = "create"
  /\ pc = "raised"
  /\ Len(requests) = 4
  /\ requests[4].path = API_MEDIA
  /\ requests[4].status = 500
  /\ requests[2].status = 200

----------------------------------------------------------------------------
(* Fetching with filters *)

\* the options the Mastodon adapter does not implement
Unimplemented ==
  {"user_id", "group_id", "activity_id", "fetch_likes", "fetch_shares",
   "fetch_events", "fetch_mentions", "search_query"}

\* C12: get_activities_response called with an option the adapter does not
\* implement (user_id, group_id, activity_id, fetch_likes, fetch_shares,
\* fetch_events, fetch_mentions, search_query) raises NotImplementedError and
\* issues no request
C12_UnsupportedFails ==
  /\ call.fn = "get_activities_response"
  /\ call.options \cap Unimplemented # {}
  => /\ pc = "raised"
     /\ result = Raised("NotImplementedError")
     /\ requests = <<>>

----------------------------------------------------------------------------
(* Conversion to ActivityStreams *)

Converts == call.fn \in {"status_to_activity", "status_to_object", "account_to_actor"}

\* C13: status_to_activity, status_to_object and account_to_actor are total:
\* for every payload, whichever optional fields are absent, they return a
\* value and never raise, and status_to_object and account_to_actor return {}
\* for a payload without id or username
C13_Total ==
  Converts =>
    /\ pc # "raised"
    /\ call.fn = "status_to_object" /\ Falsy(call.status.id) => result = EmptyDict
    /\ call.fn = "account_to_actor" /\ Falsy(call.account.username) => result = EmptyDict

\* C14: every activity status_to_activity returns has exactly one object,
\* whatever the status (plain, reply, reblog, with media, without id): a
\* reblog gives the verb 'share' and the converted reblogged status as the
\* object, any other status the verb 'post' and the converted status, and a
\* reply shows as inReplyTo of the object, never as a verb
C14_OneObject ==
  call.fn = "status_to_activity" /\ pc = "done" =>
    /\ result.object # NoneRec
    /\ result.verb \in {"post", "share"}
    /\ IF call.status.reblog # NoneRec
         THEN /\ result.verb = "share"
              /\ result.object = status_to_object(call.status.reblog)
         ELSE /\ result.verb = "post"
              /\ result.object = status_to_object(call.status)
              /\ ~Falsy(call.status.in_reply_to_id) /\ ~Falsy(call.status.id)
                   => result.object.inReplyTo # <<>>

\* a conversion has returned a dict that is not {}
Converted(fn) == call.fn = fn /\ pc = "done" /\ result.tag = "dict"

\* C15 as stated: every reference to an account carries the tag URI of the
\* account's native id, whichever payload it was converted from (profile,
\* post author, mention) and whether or not the payload has a username
C15_SameId ==
  /\ Converted("account_to_actor") => result.id = tag_uri(call.account.id)
  /\ Converted("status_to_object") =>
       /\ result.author # NoneRec => result.author.id = tag_uri(call.status.account.id)
       /\ \A k \in 1..Len(call.status.mentions) :
            result.tags[k].id = tag_uri(call.status.mentions[k].id)
  /\ Converted("user_to_actor") => result.id = fb_tag_uri(call.user.id)

\* C15: an actor's id is the tag URI of the username where the payload has
\* one: a Mastodon profile and a post's author carry the tag URI of the
\* username and the native id as numeric_id, a Mastodon mention carries the
\* tag URI of the native id, a Facebook user the tag URI of the username
\* or, without a username, of the native id
C15_ActorId ==
  /\ Converted("account_to_actor") =>
       /\ result.id = tag_uri(call.account.username)
       /\ result.numeric_id = call.account.id
  /\ Converted("status_to_object") =>
       /\ result.author # NoneRec =>
            /\ result.author.id = tag_uri(call.status.account.username)
            /\ result.author.numeric_id = call.status.account.id
       /\ \A k \in 1..Len(call.status.mentions) :
            result.tags[k].id = tag_uri(call.status.mentions[k].id)
  /\ Converted("user_to_actor") =>
       /\ result.numeric_id = call.user.id
       /\ result.id = IF Falsy(call.user.username)
                        THEN fb_tag_uri(call.user.id)
                        ELSE fb_tag_uri(call.user.username)
  /\ Converted("post_to_object") /\ result.author # NoneRec =>
       result.author.id = fb_tag_uri(call.post.from.id)

\* the author of a status and a mention in it are the same account, 23507,
\* and carry different ids
C15_Witness ==
  /\ Converted("status_to_object")
  /\ result.author # NoneRec
  /\ call.status.account.id = "23507"
  /\ Len(call.status.mentions) = 3
  /\ call.status.mentions[2].id = "23507"
  /\ result.author.id = "tag:foo.com:snarfed"
  /\ result.tags[2].id = "tag:foo.com:23507"

Group(alias) == <<[objectType |-> "group", alias |-> alias]>>

C17_Ascending ==
  Converted("post_to_object") =>
    \A i, j \in 1..Len(result.tags) :
      i < j /\ result.tags[i].startIndex >= 0 /\ result.tags[j].startIndex >= 0
        => result.tags[i].startIndex <= result.tags[j].startIndex

\* the tag made of a Facebook tag reference
IsFbTagOf(tag, ref) ==
  /\ tag.id = fb_tag_uri(ref.id)
  /\ tag.displayName = ref.name
  /\ tag.startIndex = ref.offset
  /\ tag.length = ref.length

\* the references of a Facebook post in the order the object has them
FbRefs(post, order) ==
  post.to \o post.with_tags
    \o (IF Len(order) = 0 THEN <<>> ELSE post.message_tags.groups[order[1]])
    \o (IF Len(order) = 2 THEN post.message_tags.groups[order[2]] ELSE <<>>)

\* C18: conversion neither merges nor drops tags by id: the object's tags are
\* one entry per reference of the payload, a Mastodon status's mentions and
\* then its hashtags, a Facebook post's 'to', 'with_tags' and then message
\* tags, in the payload's order within each list, so that two references
\* with one id give two entries
C18_NoDedup ==
  /\ Converted("status_to_object") =>
       LET mentions == call.status.mentions
           hashtags == call.status.tags
       IN  /\ Len(result.tags) = Len(mentions) + Len(hashtags)
           /\ \A k \in 1..Len(mentions) :
                /\ result.tags[k].objectType = "mention"
                /\ result.tags[k].id = tag_uri(mentions[k].id)
                /\ result.tags[k].url = mentions[k].url
                /\ result.tags[k].displayName = mentions[k].username
           /\ \A k \in 1..Len(hashtags) :
                /\ result.tags[Len(mentions) + k].objectType = "hashtag"
                /\ result.tags[Len(mentions) + k].url = hashtags[k].url
                /\ result.tags[Len(mentions) + k].displayName = hashtags[k].name
  /\ Converted("post_to_object") =>
       LET refs == FbRefs(call.post, call.order)
       IN  /\ Len(result.tags) = Len(refs)
           /\ \A k \in 1..Len(refs) : IsFbTagOf(result.tags[k], refs[k])

\* a status that mentions alice twice was converted: both mentions are tags
C18_Witness ==
  /\ Converted("status_to_object")
  /\ Len(call.status.mentions) = 3
  /\ call.status.mentions[1] = call.status.mentions[3]
  /\ Len(call.status.tags) = 2
  /\ Len(result.tags) = 5
  /\ result.tags[1] = result.tags[3]
  /\ result.tags[1].id = "tag:foo.com:11018"

\* a list of urls without its nulls and without the later copies of a url
Merged(urls) ==
  SelectSeq([k \in 1..Len(urls) |->
               IF \E j \in 1..(k - 1) : urls[j] = urls[k] THEN None ELSE urls[k]],
            LAMBDA u : u # None)

\* C19: an actor's url list is its primary url followed by its other urls in
\* the payload's order, each distinct url once, at the place of its first
\* occurrence, and the actor's url is the first of the list
C19_Urls ==
  /\ Converted("account_to_actor") =>
       /\ result.urls = Merged(<<call.account.url>> \o web_sites(call.account).items)
       /\ result.urls # <<>> => result.url = result.urls[1]
  /\ Converted("user_to_actor") /\ result.urls # <<>> =>
       /\ result.urls \in {Merged(SelectSeq(call.user.website, LAMBDA w : w \in {"http://a", "http://b", "http://c"})),
                           Merged(SelectSeq(call.user.link, LAMBDA w : w \in {"http://a", "http://b", "http://c"}))}
       /\ result.url = result.urls[1]

----------------------------------------------------------------------------
(* C20: splicing tags into a content *)

\* every tag has offsets and a url
Spliced(tags) == \A i \in 1..Len(tags) : tags[i].startIndex >= 0 /\ tags[i].url # None

\* the rendered output of a render_content call without its anchor markup
Plain ==
  SelectSeq(result.html, LAMBDA x : x # "</a>" /\ \A i \in 1..Len(call.obj.tags) :
                                       x # "<a href=\"" \o call.obj.tags[i].url \o "\">")

\* each tag's anchor opens right before the character at startIndex and
\* closes right after the character at startIndex + length - 1, with those
\* characters and no markup in between
AnchorsEnclose ==
  LET html == linkify(call.obj.content, call.obj.tags)
      tags == call.obj.tags
      IsMarkup(x) == x = "</a>" \/ \E i \in 1..Len(tags) : x = "<a href=\"" \o tags[i].url \o "\">"
      \* the position in html of the content's character at offset k
      At(k) == CHOOSE p \in 1..Len(html) :
                 /\ ~IsMarkup(html[p])
                 /\ Len(SelectSeq(SubSeq(html, 1, p), LAMBDA x : ~IsMarkup(x))) = k + 1
  IN  /\ Len(SelectSeq(html, LAMBDA x : x = "</a>")) = Len(tags)
      /\ Len(SelectSeq(html, LAMBDA x : IsMarkup(x) /\ x # "</a>")) = Len(tags)
      /\ \A i \in 1..Len(tags) :
           LET first == At(tags[i].startIndex)
               last == At(tags[i].startIndex + tags[i].length - 1)
           IN  /\ html[first - 1] = "<a href=\"" \o tags[i].url \o "\">"
               /\ html[last + 1] = "</a>"
               /\ last - first = tags[i].length - 1
               /\ \A k \in 0..(tags[i].length - 1) :
                    html[first + k] = call.obj.content[tags[i].startIndex + k + 1]

\* the content with '<br />' in front of each newline
WithBreaks(content) ==
  LET brs[i \in 0..Len(content)] ==
        IF i = 0 THEN <<>>
        ELSE brs[i - 1] \o (IF content[i] = "\n" THEN <<"<br />", "\n">> ELSE <<content[i]>>)
  IN  brs[Len(content)]

HasNewline(content) == \E i \in 1..Len(content) : content[i] = "\n"

----------------------------------------------------------------------------
(* C21: a content rendered without tags *)

\* the content with its ampersands escaped
Escaped(content) ==
  LET esc[i \in 0..Len(content)] ==
        IF i = 0 THEN <<>>
        ELSE esc[i - 1] \o (IF content[i] = "&" THEN <<"&", "a", "m", "p", ";">>
                            ELSE <<content[i]>>)
  IN  esc[Len(content)]

\* C21: rendering a content of one line with an empty tag set returns the
\* content with each HTML metacharacter escaped and nothing else changed
C21_Escaped ==
  (pc = "done" /\ call.fn = "render_content" /\ call.obj.tags = <<>>
     /\ ~HasNewline(call.obj.content)) =>
    result.html = Escaped(call.obj.content)

----------------------------------------------------------------------------
(* C22: the tags that are rendered after the content *)

\* no tag has offsets
Loose(tags) == \A i \in 1..Len(tags) : tags[i].startIndex < 0

\* the anchors that follow the content in the output of a render_content call
Anchors == SubSeq(result.html, Len(call.obj.content) + 1, Len(result.html))

HiddenAnchor(url) == "\n<a class=\"tag\" aria-hidden=\"true\" href=\"" \o url \o "\"></a>"

NamedAnchor(url, name) == "\n<a class=\"tag\" href=\"" \o url \o "\">" \o name \o "</a>"

----------------------------------------------------------------------------
(* C23: offsets count code points *)

\* the UTF-16 code units of the first n characters of a content
Utf16Offset(content, n) ==
  LET units[i \in 0..n] == IF i = 0 THEN 0 ELSE units[i - 1] + utf16_units(content[i])
  IN  units[n]

\* C23: in the output of a content of one line, each tag's anchor opens
\* after exactly startIndex characters (code points) of the content and
\* holds the length characters that follow, also where characters above
\* the Basic Multilingual Plane come before the tag
C23_CodePoints ==
  (pc = "done" /\ call.fn = "render_content" /\ Spliced(call.obj.tags)
     /\ ~HasNewline(call.obj.content)) =>
    \A i \in 1..Len(call.obj.tags) :
      LET t == call.obj.tags[i]
          \* the markup that comes before this tag's anchor
          before == 2 * Cardinality({j \in 1..Len(call.obj.tags) :
                                       call.obj.tags[j].startIndex < t.startIndex})
          open == before + t.startIndex + 1
      IN  /\ open + t.length + 1 <= Len(result.html)
          /\ result.html[open] = "<a href=\"" \o t.url \o "\">"
          /\ result.html[open + t.length + 1] = "</a>"
          /\ SubSeq(result.html, open + 1, open + t.length)
               = SubSeq(call.obj.content, t.startIndex + 1, t.startIndex + t.length)

\* the tests' content with three emoji has been rendered: the anchor wraps
\* '@itsmaeril', which starts at code point 8 and at UTF-16 unit 11
C23_Witness ==
  /\ pc = "done"
  /\ call.fn = "render_content"
  /\ Len(call.obj.tags) = 1
  /\ call.obj.tags[1].startIndex = 8
  /\ call.obj.tags[1].length = 10
  /\ SubSeq(call.obj.content, 1, 3) = <<"U+1F4AF", "U+1F4AF", "U+1F4AF">>
  /\ Utf16Offset(call.obj.content, 8) = 11
  /\ SubSeq(result.html, 9, 21)
       = <<"<a href=\"https://twitter.com/itsmaeril\">",
           "@", "i", "t", "s", "m", "a", "e", "r", "i", "l", "</a>", ")">>

----------------------------------------------------------------------------
(* C24: post type discovery *)

\* C24: json_to_object gives a tree with like-of objectType 'activity' and
\* verb 'like', one with repost-of 'activity' and 'share', and a tree with
\* neither objectType 'note' and no verb, also when it has a like or a
\* repost property
C24_PostType ==
  (pc = "done" /\ call.fn = "json_to_object") =>
    /\ call.tree.like_of # None =>
         result.objectType = "activity" /\ result.verb = "like"
    /\ call.tree.repost_of # None =>
         result.objectType = "activity" /\ result.verb = "share"
    /\ (call.tree.like_of = None /\ call.tree.repost_of = None) =>
         result.objectType = "note" /\ result.verb = None

\* a tree with repost-of and a like property has become a share
C24_Witness ==
  /\ pc = "done"
  /\ call.fn = "json_to_object"
  /\ call.tree.repost_of = "http://foo/bar"
  /\ call.tree.like = "http://foo/bar"
  /\ result.objectType = "activity"
  /\ result.verb = "share"

----------------------------------------------------------------------------
(* C25: a reply that is also a tag of a post *)

\* C25: json_to_object of a tree that has both in-reply-to and tag-of ends
\* with an error and returns no object, and only such a tree does
C25_Ambiguous ==
  (call.fn = "json_to_object" /\ pc \in {"done", "raised"}) =>
    /\ (call.tree.in_reply_to # None /\ call.tree.tag_of # None)
         <=> (pc = "raised" /\ result = Raised("NotImplementedError"))
    /\ pc = "done" => result.tag = "object"

\* the tests' tree with tag-of https://a/post and in-reply-to
\* https://another/post has been refused
C25_Witness ==
  /\ pc = "raised"
  /\ call.fn = "json_to_object"
  /\ call.tree.tag_of = "https://a/post"
  /\ call.tree.in_reply_to = "https://another/post"
  /\ result = Raised("NotImplementedError")

----------------------------------------------------------------------------
(* C26: where the location comes from *)

----------------------------------------------------------------------------
(* C27: an object, its tree, and the tree's object *)

\* C27: the object of an object's tree has the objectType, verb, object
\* and content of the object it came from. A share without an objectType,
\* as the tests', comes back as an activity.
C27_RoundTrip ==
  (pc = "done" /\ call.fn = "object_to_json") =>
    LET back == json_to_object(result.json)
    IN  /\ back.objectType = call.obj.objectType
        /\ back.verb = call.obj.verb
        /\ back.object = call.obj.object
        /\ back.content = call.obj.content

----------------------------------------------------------------------------
(* C28: the requests of get_activities_response *)

\* C28: get_activities_response asks for the user's statuses first and,
\* without fetch_replies, for nothing else; with fetch_replies it then asks
\* for the context of each listed status that has an id, once, in the
\* list's order. When it returns, the activities are those of the listed
\* statuses, one each and in their order, and with fetch_replies the
\* object of a status with an id has its context's descendants, converted
\* in their order, as its replies.
C28_RequestSequence ==
  (call.fn = "get_activities_response" /\ requests # <<>>) =>
    LET listed == requests[1].body
        HasId(s) == ~Falsy(s.id)
        with_id == SelectSeq(listed, HasId)
        fetch_replies == "fetch_replies" \in call.options
        converted(descendants) ==
          [j \in 1..Len(descendants) |-> status_to_activity(descendants[j])]
        context_of(k) == requests[1 + Len(SelectSeq(SubSeq(listed, 1, k), HasId))].body
        expected(k) ==
          IF fetch_replies /\ HasId(listed[k])
            THEN [status_to_activity(listed[k]) EXCEPT
                    !.object.replies = converted(context_of(k))]
            ELSE status_to_activity(listed[k])
    IN  /\ requests[1].method = "GET"
        /\ requests[1].host = InstanceHost
        /\ requests[1].path = API_ACCOUNT_STATUSES
        /\ requests[1].arg = <<UserId>>
        /\ ~fetch_replies => Len(requests) = 1
        /\ \A k \in 2..Len(requests) :
             /\ k - 1 <= Len(with_id)
             /\ requests[k].method = "GET"
             /\ requests[k].host = InstanceHost
             /\ requests[k].path = API_CONTEXT
             /\ requests[k].arg = <<with_id[k - 1].id>>
        /\ pc = "done" =>
             /\ Len(requests) = 1 + (IF fetch_replies THEN Len(with_id) ELSE 0)
             /\ Len(result.items) = Len(listed)
             /\ \A k \in 1..Len(listed) : result.items[k] = expected(k)

\* two statuses were listed, the second a boost; both contexts were
\* fetched, in order, the first with two replies
C28_Witness ==
  /\ pc = "done"
  /\ call.fn = "get_activities_response"
  /\ "fetch_replies" \in call.options
  /\ Len(requests) = 3
  /\ requests[2].arg = <<"123">>
  /\ requests[3].arg = <<"789">>
  /\ Len(requests[2].body) = 2
  /\ Len(result.items) = 2
  /\ Len(result.items[1].object.replies) = 2
  /\ result.items[2].verb = "share"

----------------------------------------------------------------------------
(* C29: creating a like or a share *)

\* C29: create of a like or a share whose target is on the instance issues
\* one request, the POST to the favourite or the reblog endpoint of the
\* target's id, and no other, whatever images or videos the object has;
\* the result's content has type 'like' or 'repost' and the response's
\* url, or the target's url when the response has none
C29_ReactOnce ==
  (call.fn = "create" /\ Reacts(call.obj) /\ base_object(call.obj).url # NoUrl) =>
    LET target == base_object(call.obj)
        like == call.obj.verb = "like"
    IN  /\ Len(requests) <= 1
        /\ \A k \in 1..Len(requests) :
             /\ requests[k].method = "POST"
             /\ requests[k].host = InstanceHost
             /\ requests[k].path = IF like THEN API_FAVORITE ELSE API_REBLOG
             /\ requests[k].arg = <<target.id>>
             /\ requests[k].file = NoUrl
        /\ media = <<>>
        /\ ids = <<>>
        /\ Finished => Len(requests) = 1
        /\ pc = "done" =>
             /\ result.tag = "CreationResult"
             /\ ~result.abort
             /\ result.content.type = IF like THEN "like" ELSE "repost"
             /\ result.content.url = IF requests[1].body.url # NoUrl
                                       THEN requests[1].body.url ELSE target.url

\* a share with an image was created; the response had no url, and the
\* result has the target's
C29_Witness ==
  /\ pc = "done"
  /\ call.fn = "create"
  /\ call.obj.verb = "share"
  /\ call.obj.objectType = "activity"
  /\ call.obj.image # <<>>
  /\ Len(requests) = 1
  /\ requests[1].path = API_REBLOG
  /\ requests[1].body.url = NoUrl
  /\ result.content.type = "repost"
  /\ result.content.url = base_object(call.obj).url

----------------------------------------------------------------------------
(* C30: where the access token goes *)

\* the calls of the Mastodon adapter that issue requests
MastodonRequests ==
  call.fn \in {"__init__", "get_activities_response", "create", "preview_create"}

\* C30 as stated: every request to the instance carries the Authorization
\* header and no other request does. The fetch of an image that is on the
\* instance itself goes to the instance without the header.
C30_EveryInstanceRequest ==
  MastodonRequests =>
    \A k \in 1..Len(requests) :
      IF requests[k].host = InstanceHost
        THEN requests[k].auth = "Bearer towkin"
        ELSE requests[k].auth = None

\* C30: in the constructor, get_activities_response and create every API
\* request carries 'Authorization: Bearer <access_token>' and goes to the
\* instance, to one of the API's paths, whatever ids and urls are in it;
\* the GET that fetches a media item goes to the item's own url, which may
\* be on the instance, and carries no Authorization header
C30_TokenConfined ==
  MastodonRequests =>
    \A k \in 1..Len(requests) :
      LET e == requests[k]
      IN  IF call.fn = "create" /\ e.method = "GET"
            THEN /\ e.auth = None
                 /\ \E i \in 1..Len(Items(call.obj)) :
                      /\ e.host = Items(call.obj)[i].url.host
                      /\ e.path = Items(call.obj)[i].url.path
            ELSE /\ e.auth = "Bearer towkin"
                 /\ e.host = InstanceHost
                 /\ e.path \in {API_FAVORITE, API_MEDIA, API_REBLOG, API_STATUSES,
                                API_VERIFY_CREDENTIALS, API_ACCOUNT_STATUSES, API_CONTEXT}

\* a note with an image on the instance was created: the image was fetched
\* from the instance without the header, then uploaded and posted with it
C30_Witness ==
  /\ pc = "done"
  /\ call.fn = "create"
  /\ Len(requests) = 3
  /\ requests[1].method = "GET"
  /\ requests[1].host = InstanceHost
  /\ requests[1].auth = None
  /\ requests[2].path = API_MEDIA
  /\ requests[2].auth = "Bearer towkin"
  /\ requests[3].path = API_STATUSES
  /\ requests[3].auth = "Bearer towkin"

====
